---- MODULE Spec2Model ----
(***************************************************************************)
(* pi-kota: the session state shared by the KotaDB tool entry points       *)
(* (src/src/index.ts), the promise-deduplicated ensureIndexed              *)
(* (src/src/kota/ensure.ts), the MCP client life cycle                     *)
(* (src/src/kota/mcp.ts) and the budgeted tool call (kota/tools.ts, kept   *)
(* in src/unnamed/part_014).                                               *)
(*                                                                         *)
(* Every logically concurrent caller (a tool execution, a /kota command,   *)
(* an event handler, or a bare ensureIndexed call as the unit tests make   *)
(* it) is a task.  A step of a task is the code between two awaits: the    *)
(* host is single threaded, so tasks interleave at await points only.      *)
(*                                                                         *)
(* Init is the session after the session_start handler has run: the        *)
(* configuration is loaded and repoRoot is detected.                       *)
(***************************************************************************)
EXTENDS Integers, FiniteSets, Sequences, TLC

\* ---------------------------------------------------------------- bounds
NumTasks == 2      \* logically concurrent callers
MaxOps == 3        \* operations started in one behaviour
MaxClients == 2    \* KotaMcpClient objects created (subprocess spawns)
MaxRuns == 2       \* indexing runs (IIFE promises) created
MaxHandles == 3    \* acquire() calls on a tracker on its own
MaxHeads == 3      \* commits the repository's HEAD moves between
MaxCloseCalls == 4 \* close() calls on a client on its own
MaxFiles == 3      \* entries of the blob directory that evictBlobs reads
MaxChars == 4      \* characters of a text handed to truncateChars
MaxMsgs == 4       \* messages of a context handed to pruneContextMessages
MaxBlobWrites == 3 \* writeBlob calls of a behaviour
MaxSeqOps == 5     \* operations of a behaviour that runs them one by one

Tasks == 1..NumTasks
Clients == 1..MaxClients
Runs == 1..MaxRuns
Handles == 1..MaxHandles
Heads == 1..MaxHeads
Names == 1..MaxFiles

\* null: state.mcp, state.indexPromise and the task locals start as null
Null == 0

\* repoRoot of the session, and one other path a kota_index caller may pass
RepoRoot == "P1"
Paths == {"P1", "P2"}
NoPath == "none"

VARIABLES
  tasks,            \* per caller: position (pc) and locals
  nOps,             \* operations started so far
  cfgConfirmIndex,  \* state.config.kota.confirmIndex
  kotaStatus,       \* state.kotaStatus
  lastError,        \* state.lastError ("none" = null)
  mcp,              \* state.mcp: a client id or Null
  conn,             \* per KotaMcpClient: subprocess / handshake / this.client
  nClients,         \* KotaMcpClient objects created so far
  indexedRepoRoot,  \* state.indexedRepoRoot
  indexPromise,     \* state.indexPromise: a run id or Null
  runSt,            \* per run: the promise state of the IIFE `run`
  runErr,           \* per run: the error a rejected run carries
  runIdx,           \* per run: whether opts.index() was invoked, and its end
  runForced,        \* per run: started by a forced call
  nRuns,            \* runs created so far
  inFlight,         \* state.inFlight: [count |-> _count, waiters |-> _waiters]
  drainSt,          \* per caller: the promise its drain() call returned
  drainBy,          \* per caller: what resolved that promise
  released,         \* per acquire(): the `released` flag of its closure
  relCalls,         \* per acquire(): calls of its release function so far
  indexedAtCommit,  \* state.indexedAtCommit: a commit or Null
  stalenessWarnedForHead,  \* state.stalenessWarnedForHead: a commit or Null
  head,             \* what `git rev-parse HEAD` answers
  warnings,         \* per commit: staleness warnings since the last restart
  nIndexRpc,        \* index RPCs issued by operations run one by one
  lastOp,           \* the operation that ran last, of those run one by one
  lastOut,          \* and how it ended
  handleCloses,     \* per client: close() calls made on its SDK handle
  ev,               \* one evictBlobs call: directory, options, result
  bl,               \* the blob directory and the writeBlob calls on it
  pr,               \* one pruneContextMessages call: messages, opts, result
  ps,               \* one computePruneSettings call: base, tokens, result
  tc,               \* one truncateChars call: input, maxChars, result
  lg,               \* the last operation run with a logger that can fail
  ce,               \* one KotaMcpClient.connect call: what happened, result
  sc                \* the checkStaleness calls under way

sessVars == <<kotaStatus, lastError, mcp, conn, nClients>>
runVars == <<runSt, runErr, runIdx, runForced, nRuns>>
trackVars == <<inFlight, drainSt, drainBy>>
handleVars == <<released, relCalls>>

commitVars == <<indexedAtCommit, stalenessWarnedForHead>>
seqVars == <<head, warnings, nIndexRpc, lastOp, lastOut>>

\* what the session's handlers never write
calcVars == <<ps, tc, lg, ce, sc>>
fnVars == <<ev, bl, pr, calcVars>>
pureVars == <<handleVars, seqVars, handleCloses, fnVars>>
\* what a handler that leaves the in-flight tracker and the commit
\* bookkeeping alone does not write
cfgVars == <<cfgConfirmIndex, trackVars, commitVars, pureVars>>

vars == <<tasks, nOps, cfgConfirmIndex, kotaStatus, lastError, mcp, conn,
          nClients, indexedRepoRoot, indexPromise, runSt, runErr, runIdx,
          runForced, nRuns, trackVars, commitVars, pureVars>>

\* A caller that is not inside any operation.  An operation ends at pc "done"
\* with its results in the record; the host then takes the result (Return).
IdleRec ==
  [pc |-> "idle", op |-> "none", target |-> RepoRoot, confirmIndex |-> FALSE,
   force |-> FALSE, ans |-> "none", tool |-> "none", ret |-> "none",
   client |-> Null, run |-> Null, role |-> "none", h |-> Null,
   errClass |-> "none", lt |-> 0, cb |-> 0, res |-> "none",
   tools |-> "none", wasIndexed |-> FALSE, eiOut |-> "none", out |-> "none"]

\* no KotaMcpClient has been created
NoClient ==
  /\ mcp = Null
  /\ conn = [c \in Clients |-> "unused"]
  /\ nClients = 0

SessionIdle ==
  /\ tasks = [t \in Tasks |-> IdleRec]
  /\ nOps = 0
  /\ cfgConfirmIndex \in BOOLEAN
  /\ kotaStatus = "stopped"
  /\ lastError = "none"
  /\ indexedRepoRoot = NoPath
  /\ indexPromise = Null
  /\ runSt = [r \in Runs |-> "unused"]
  /\ runErr = [r \in Runs |-> "none"]
  /\ runIdx = [r \in Runs |-> "no"]
  /\ runForced = [r \in Runs |-> FALSE]
  /\ nRuns = 0
  /\ indexedAtCommit = Null
  /\ stalenessWarnedForHead = Null
  /\ head = 1
  /\ warnings = [c \in Heads |-> 0]
  /\ nIndexRpc = 0
  /\ lastOp = "none"
  /\ lastOut = "none"
  /\ handleCloses = [c \in Clients |-> 0]

\* a directory entry: nothing, a regular file or a subdirectory
NoEntry == [kind |-> "absent", mtimeMs |-> 0, size |-> 0]

\* no evictBlobs call has been made
NoEvict ==
  [exists |-> FALSE, dir |-> [n \in Names |-> NoEntry], maxAgeDays |-> 0,
   maxSizeBytes |-> 0, done |-> FALSE, failed |-> FALSE, removed |-> {},
   statted |-> {}, aged |-> {}, totalSize |-> 0,
   ageFailed |-> {}, sizeFailed |-> {},
   removedCount |-> 0, removedBytes |-> 0]

\* the contents written as blobs, as lists of chunks, and the extensions
Contents == {<<>>, <<1>>, <<1, 2>>, <<2, 1>>}
Exts == {".txt", ".json"}

\* a caller that is not inside writeBlob
NoWrite ==
  [pc |-> "idle", content |-> <<>>, ext |-> ".txt", blobId |-> 0,
   blobPath |-> <<0, ".txt">>, off |-> 0]

\* no directory, no file, no writeBlob call
NoBlobs ==
  [dirExists |-> FALSE,
   files |-> [p \in {} |-> <<>>],
   w |-> [t \in Tasks |-> NoWrite],
   opened |-> {},
   returned |-> {},
   n |-> 0]

\* pruneContextMessages not called
NoPrune ==
  [messages |-> <<>>, keepRecentTurns |-> 0, maxToolChars |-> 0,
   pruneToolNames |-> {}, out |-> <<>>, done |-> FALSE]

\* computePruneSettings not called
NoSettings ==
  [base |-> [keepRecentTurns |-> 0, maxToolChars |-> 0],
   tokensDefined |-> FALSE, tokens |-> 0,
   out |-> [keepRecentTurns |-> 0, maxToolChars |-> 0], done |-> FALSE]

\* truncateChars not called
NoTruncate == [input |-> <<>>, maxChars |-> 0, out |-> <<>>, done |-> FALSE]

\* no operation has run with a failing logger or a failing eviction
NoLog ==
  [op |-> "none", out |-> "none", notify |-> "none",
   logFailed |-> FALSE, evictFailed |-> FALSE]

\* connect() not called on a new KotaMcpClient: this.client = null
NoConnect ==
  [didTimeout |-> FALSE, commandIsBun |-> FALSE, handshakeOk |-> FALSE,
   error |-> "none", stderrText |-> <<>>,
   thrown |-> [kind |-> "none", text |-> <<>>],
   client |-> FALSE, done |-> FALSE]

\* no checkStaleness call is under way; sinceIndex counts the checks that
\* came to their warning since the last index run that succeeded
NoStale ==
  [pc |-> [t \in Tasks |-> "idle"], got |-> [t \in Tasks |-> Null],
   hasUI |-> [t \in Tasks |-> FALSE], sinceIndex |-> 0]

CalcIdle ==
  /\ ps = NoSettings /\ tc = NoTruncate /\ lg = NoLog /\ ce = NoConnect
  /\ sc = NoStale

FnIdle == ev = NoEvict /\ bl = NoBlobs /\ pr = NoPrune /\ CalcIdle

SessionInit == SessionIdle /\ NoClient /\ FnIdle

\* new InFlightTracker(): _count = 0, _waiters = []
TrackerInit ==
  /\ inFlight = [count |-> 0, waiters |-> {}]
  /\ drainSt = [t \in Tasks |-> "none"]
  /\ drainBy = [t \in Tasks |-> "none"]
  /\ released = [h \in Handles |-> "none"]
  /\ relCalls = [h \in Handles |-> 0]

Init == SessionInit /\ TrackerInit

SetTask(t, rec) == tasks' = [tasks EXCEPT ![t] = rec]

\* ------------------------------------------------------- InFlightTracker
\* acquire(): this._count++
Acquire(tr) == [tr EXCEPT !.count = @ + 1]

\* Math.max(0, this._count - 1)
Decrement(c) == IF c - 1 > 0 THEN c - 1 ELSE 0

\* the release function calls the waiters when the count has come to zero
WakesWaiters_Never(c) == FALSE
WakesWaiters(c) == c = 0

\* the tracker after a release function ran on a closure not yet released:
\* the count goes down, and at zero this._waiters.splice(0) empties the list
Release(tr) ==
  [count |-> Decrement(tr.count),
   waiters |-> IF WakesWaiters(Decrement(tr.count)) THEN {} ELSE tr.waiters]

\* the callers whose waiter that release calls
Woken(tr) == IF WakesWaiters(Decrement(tr.count)) THEN tr.waiters ELSE {}

\* a release: each waiter called does clearTimeout(timer); resolve(), which
\* settles a promise that is still pending and is a no-op on one the timer
\* has resolved already
ReleaseFrom(tr) ==
  /\ inFlight' = Release(tr)
  /\ drainSt' = [d \in Tasks |->
                   IF d \in Woken(tr) /\ drainSt[d] = "pending"
                   THEN "resolved" ELSE drainSt[d]]
  /\ drainBy' = [d \in Tasks |->
                   IF d \in Woken(tr) /\ drainSt[d] = "pending"
                   THEN "zero" ELSE drainBy[d]]

ReleaseInFlight == ReleaseFrom(inFlight)

\* drain(timeoutMs) called by d: Promise.resolve() when the count is zero,
\* otherwise a new promise with a timer and a waiter pushed on the list
DrainCall(d) ==
  IF inFlight.count = 0
  THEN /\ drainSt' = [drainSt EXCEPT ![d] = "resolved"]
       /\ drainBy' = [drainBy EXCEPT ![d] = "immediate"]
       /\ UNCHANGED inFlight
  ELSE /\ drainSt' = [drainSt EXCEPT ![d] = "pending"]
       /\ drainBy' = [drainBy EXCEPT ![d] = "none"]
       /\ inFlight' = [inFlight EXCEPT !.waiters = @ \cup {d}]

\* timeoutMs has elapsed: setTimeout(resolve, timeoutMs) fires.  The waiter
\* stays on the list.
DrainTimeout(d) ==
  /\ drainSt[d] = "pending"
  /\ drainSt' = [drainSt EXCEPT ![d] = "resolved"]
  /\ drainBy' = [drainBy EXCEPT ![d] = "timer"]
  /\ UNCHANGED inFlight

\* ------------------------------------------------ ensureConnected (sync part)
\* KotaMcpClient.isConnected(): this.client !== null.  conn = "connected" is a
\* client with a completed handshake, "broken" one whose pipe has since
\* failed under a call (the client object still holds this.client).
HasHandle(c) == conn[c] \in {"connected", "broken"}

\* state.mcp?.isConnected()
IsConnected == mcp # Null /\ HasHandle(mcp)

\* ensureConnected up to its first await: either the fast path (status :=
\* running, return) or status := starting, new KotaMcpClient, connect() spawns
\* the subprocess and awaits the handshake.  ret is where the caller goes on.
ECSync(t, rec, ret) ==
  IF IsConnected
  THEN /\ kotaStatus' = "running"
       /\ SetTask(t, [rec EXCEPT !.pc = ret])
       /\ UNCHANGED <<conn, nClients>>
  ELSE /\ nClients < MaxClients
       /\ kotaStatus' = "starting"
       /\ nClients' = nClients + 1
       /\ conn' = [conn EXCEPT ![nClients + 1] = "connecting"]
       /\ SetTask(t, [rec EXCEPT !.pc = "ec_wait", !.ret = ret,
                                 !.client = nClients + 1])

\* ------------------------------------------------------------ ensureIndexed
\* the `indexed` getter the entry points hand to ensureIndexed
Indexed(p) == indexedRepoRoot = p

\* the in-flight promise ensureIndexed finds on entry
InFlightSlot_NoDedupe == Null
InFlightSlot == indexPromise

\* the fast path: already indexed and not forced
SkipIndexing_Never(rec) == FALSE
SkipIndexing(rec) == Indexed(rec.target) /\ ~rec.force

\* what the caller does once ensureIndexed has returned normally
Continue(rec) ==
  IF rec.op = "search"
  THEN [rec EXCEPT !.pc = "s_call", !.tool = "none"]
  ELSE [rec EXCEPT !.pc = "done", !.tool = "none", !.out = "ok"]

\* opts.index() is called: a bare ensureIndexed call gets the caller's index
\* function, an entry point runs callKotaToolStrict(ctx, "index", ...), which
\* starts with ensureConnected.
InvokeIndex(t, rec) ==
  /\ runIdx' = [runIdx EXCEPT ![rec.run] = "running"]
  /\ IF rec.op = "ensure"
     THEN /\ SetTask(t, [rec EXCEPT !.pc = "ix_fn", !.tool = "index"])
          /\ UNCHANGED <<kotaStatus, conn, nClients>>
     ELSE ECSync(t, [rec EXCEPT !.tool = "index"], "ct_chk")

\* ensureIndexed from its entry to its first await; wasIndexed is what the
\* `indexed` getter answers at that moment.
EIEnterAt(t, rec) ==
  IF SkipIndexing(rec)
  THEN /\ SetTask(t, Continue([rec EXCEPT !.eiOut = "ok"]))
       /\ UNCHANGED <<indexPromise, runVars, kotaStatus, conn, nClients>>
  ELSE IF InFlightSlot # Null
  THEN /\ SetTask(t, [rec EXCEPT !.pc = "ei_wait", !.role = "waiter",
                                 !.run = InFlightSlot])
       /\ UNCHANGED <<indexPromise, runVars, kotaStatus, conn, nClients>>
  ELSE /\ nRuns < MaxRuns
       /\ nRuns' = nRuns + 1
       /\ runSt' = [runSt EXCEPT ![nRuns + 1] = "pending"]
       /\ runForced' = [runForced EXCEPT ![nRuns + 1] = rec.force]
       /\ indexPromise' = nRuns + 1
       /\ UNCHANGED runErr
       /\ LET r == [rec EXCEPT !.role = "runner", !.run = nRuns + 1] IN
          IF rec.confirmIndex
          THEN /\ SetTask(t, [r EXCEPT !.pc = "ei_confirm"])
               /\ UNCHANGED <<runIdx, kotaStatus, conn, nClients>>
          ELSE InvokeIndex(t, r)

EIEnter(t, rec) ==
  EIEnterAt(t, [rec EXCEPT !.wasIndexed = Indexed(rec.target)])

\* A bare ensureIndexed call on the shared state (tests/kota-ensure.test.ts).
StartEnsure(t) ==
  /\ tasks[t].pc = "idle"
  /\ nOps < MaxOps
  /\ nOps' = nOps + 1
  /\ \E ci \in BOOLEAN, f \in BOOLEAN :
       EIEnter(t, [IdleRec EXCEPT !.op = "ensure", !.confirmIndex = ci,
                                  !.force = f])
  /\ UNCHANGED <<cfgVars, lastError, mcp, indexedRepoRoot>>

\* the confirmation callback's answer that cancels the run
Refused_Never(a) == FALSE
Refused(a) == a = FALSE

\* `const ok = await opts.confirm(...)` resumes.
ConfirmAnswer(t) ==
  /\ tasks[t].pc = "ei_confirm"
  /\ \E a \in BOOLEAN :
       LET rec == [tasks[t] EXCEPT !.ans = IF a THEN "yes" ELSE "no"] IN
       IF Refused(a)
       THEN /\ runSt' = [runSt EXCEPT ![rec.run] = "rejected"]
            /\ runErr' = [runErr EXCEPT ![rec.run] = "cancelled"]
            /\ SetTask(t, [rec EXCEPT !.pc = "ei_fin"])
            /\ UNCHANGED <<runIdx, runForced, nRuns, kotaStatus, conn,
                           nClients>>
       ELSE /\ InvokeIndex(t, rec)
            /\ UNCHANGED <<runSt, runErr, runForced, nRuns>>
  /\ UNCHANGED <<nOps, cfgVars, lastError, mcp, indexedRepoRoot,
                 indexPromise>>

\* An error thrown at the caller's current position: inside the index
\* function it rejects the run (the runner then reaches its finally), anywhere
\* else it fails the operation.
FailRec(rec, err) ==
  IF rec.tool = "index"
  THEN [rec EXCEPT !.pc = "ei_fin"]
  ELSE [rec EXCEPT !.pc = "done", !.out = err]

FailRuns(t, rec, err) ==
  /\ SetTask(t, FailRec(rec, err))
  /\ IF rec.tool = "index"
     THEN /\ runSt' = [runSt EXCEPT ![rec.run] = "rejected"]
          /\ runErr' = [runErr EXCEPT ![rec.run] = err]
          /\ runIdx' = [runIdx EXCEPT ![rec.run] = "fail"]
          /\ UNCHANGED <<runForced, nRuns>>
     ELSE UNCHANGED runVars

\* The index function of a bare ensureIndexed call settles.
IndexFnSettle(t) ==
  /\ tasks[t].pc = "ix_fn"
  /\ \E ok \in BOOLEAN :
       IF ok
       THEN /\ runIdx' = [runIdx EXCEPT ![tasks[t].run] = "ok"]
            /\ SetTask(t, [tasks[t] EXCEPT !.pc = "ix_mark"])
            /\ UNCHANGED <<runSt, runErr, runForced, nRuns>>
       ELSE FailRuns(t, tasks[t], "indexfail")
  /\ UNCHANGED <<nOps, cfgVars, sessVars, indexedRepoRoot,
                 indexPromise>>

\* the `indexed` setter the entry points hand to ensureIndexed, called with
\* true: `state.indexedRepoRoot = v ? targetPath : null`
MarkedRoot_RepoRoot(rec) == RepoRoot
MarkedRoot(rec) == rec.target

\* `opts.state.indexed = true` and the IIFE returns: the run is fulfilled.
MarkIndexed(t) ==
  /\ tasks[t].pc = "ix_mark"
  /\ indexedRepoRoot' = MarkedRoot(tasks[t])
  /\ runSt' = [runSt EXCEPT ![tasks[t].run] = "fulfilled"]
  /\ SetTask(t, [tasks[t] EXCEPT !.pc = "ei_fin"])
  /\ UNCHANGED <<nOps, cfgVars, sessVars, indexPromise, runErr,
                 runIdx, runForced, nRuns>>

\* the outcome a settled run hands to whoever awaits it
RunOutcome(r) == IF runSt[r] = "fulfilled" THEN "ok" ELSE runErr[r]

\* whether the runner's final step clears the slot
ClearsSlot_OnSuccessOnly(r) == runSt[r] = "fulfilled"
ClearsSlot(r) == TRUE

\* the runner's `await run` resumes: finally { indexPromise = null }, then
\* return or rethrow.
RunFinally(t) ==
  /\ tasks[t].pc = "ei_fin"
  /\ runSt[tasks[t].run] \in {"fulfilled", "rejected"}
  /\ indexPromise' = IF ClearsSlot(tasks[t].run) THEN Null ELSE indexPromise
  /\ LET o == RunOutcome(tasks[t].run)
         rec == [tasks[t] EXCEPT !.eiOut = o]
     IN SetTask(t, IF o = "ok" THEN Continue(rec)
                   ELSE [rec EXCEPT !.pc = "done", !.tool = "none", !.out = o])
  /\ UNCHANGED <<nOps, cfgVars, sessVars, indexedRepoRoot, runVars>>

\* what a waiter observes of the run it awaited
WaiterOutcome_Swallow(r) == "ok"
WaiterOutcome(r) == RunOutcome(r)

\* a waiter's `await opts.state.indexPromise` resumes: return or rethrow.
AwaitRunSettled(t) ==
  /\ tasks[t].pc = "ei_wait"
  /\ runSt[tasks[t].run] \in {"fulfilled", "rejected"}
  /\ LET o == WaiterOutcome(tasks[t].run)
         rec == [tasks[t] EXCEPT !.eiOut = o]
     IN SetTask(t, IF o = "ok" THEN Continue(rec)
                   ELSE [rec EXCEPT !.pc = "done", !.out = o])
  /\ UNCHANGED <<nOps, cfgVars, sessVars, indexedRepoRoot,
                 indexPromise, runVars>>

\* the operation's promise settles towards the host; the caller is free again
Return(t) ==
  /\ tasks[t].pc = "done"
  /\ SetTask(t, IdleRec)
  /\ drainSt' = [drainSt EXCEPT ![t] = "none"]
  /\ drainBy' = [drainBy EXCEPT ![t] = "none"]
  /\ UNCHANGED <<nOps, cfgConfirmIndex, inFlight, commitVars, pureVars, sessVars,
                 indexedRepoRoot, indexPromise, runVars>>

\* ------------------------------------------------- ensureIndexed on its own
NextEnsure ==
  \E t \in Tasks :
    \/ StartEnsure(t)
    \/ Return(t)
    \/ ConfirmAnswer(t)
    \/ IndexFnSettle(t)
    \/ MarkIndexed(t)
    \/ RunFinally(t)
    \/ AwaitRunSettled(t)

SpecEnsure == Init /\ [][NextEnsure]_vars

\* ------------------------------------------------------ the entry points
\* kota_search, kota_deps, kota_usages, kota_impact, kota_task_context:
\* ensureConnected, ensureRepoIndexed, callKotaToolStrict.
StartSearch(t) ==
  /\ tasks[t].pc = "idle"
  /\ nOps < MaxOps
  /\ nOps' = nOps + 1
  /\ ECSync(t, [IdleRec EXCEPT !.op = "search", !.target = RepoRoot,
                               !.confirmIndex = cfgConfirmIndex], "s_ei")
  /\ UNCHANGED <<cfgVars, lastError, mcp, indexedRepoRoot,
                 indexPromise, runVars>>

\* the kota_index tool: ensureConnected, ensureIndexed without confirmation,
\* on the path the caller passes (default repoRoot).
StartKotaIndex(t) ==
  /\ tasks[t].pc = "idle"
  /\ nOps < MaxOps
  /\ nOps' = nOps + 1
  /\ \E p \in Paths :
       ECSync(t, [IdleRec EXCEPT !.op = "kota_index", !.target = p,
                                 !.confirmIndex = FALSE], "s_ei")
  /\ UNCHANGED <<cfgVars, lastError, mcp, indexedRepoRoot,
                 indexPromise, runVars>>

\* /kota index: ensureConnected, ensureIndexed with the configured
\* confirmation.
StartCmdIndex(t) ==
  /\ tasks[t].pc = "idle"
  /\ nOps < MaxOps
  /\ nOps' = nOps + 1
  /\ ECSync(t, [IdleRec EXCEPT !.op = "cmd_index", !.target = RepoRoot,
                               !.confirmIndex = cfgConfirmIndex], "s_ei")
  /\ UNCHANGED <<cfgVars, lastError, mcp, indexedRepoRoot,
                 indexPromise, runVars>>

\* `await client.connect()` resumes in ensureConnected: the handshake
\* completed (connect stores this.client, ensureConnected stores state.mcp)
\* or the attempt failed (catch: status error, state.mcp = null, rethrow).
ConnectSettle(t) ==
  /\ tasks[t].pc = "ec_wait"
  /\ \E ok \in BOOLEAN :
       IF ok
       THEN /\ conn' = [conn EXCEPT ![tasks[t].client] = "connected"]
            /\ mcp' = tasks[t].client
            /\ kotaStatus' = "running"
            /\ lastError' = "none"
            /\ SetTask(t, [tasks[t] EXCEPT !.pc = tasks[t].ret, !.ret = "none",
                                           !.client = Null])
            /\ UNCHANGED runVars
       ELSE /\ conn' = [conn EXCEPT ![tasks[t].client] = "failed"]
            /\ mcp' = Null
            /\ kotaStatus' = "error"
            /\ lastError' = "connect"
            /\ FailRuns(t, [tasks[t] EXCEPT !.ret = "none", !.client = Null],
                        "connect")
  /\ UNCHANGED <<nOps, cfgVars, nClients, indexedRepoRoot,
                 indexPromise>>

\* the entry point's `await ensureConnected(ctx)` resumes and calls
\* ensureIndexed (through ensureRepoIndexed for the search-type tools).
EnsureIndexedEnter(t) ==
  /\ tasks[t].pc = "s_ei"
  /\ EIEnter(t, tasks[t])
  /\ UNCHANGED <<nOps, cfgVars, lastError, mcp, indexedRepoRoot>>

\* a search-type tool goes on after ensureRepoIndexed:
\* callKotaToolStrict -> callKotaTool -> ensureConnected.
AfterIndexed(t) ==
  /\ tasks[t].pc = "s_call"
  /\ ECSync(t, [tasks[t] EXCEPT !.tool = "search"], "ct_chk")
  /\ UNCHANGED <<nOps, cfgVars, lastError, mcp, indexedRepoRoot,
                 indexPromise, runVars>>

\* callKotaTool after `await ensureConnected(ctx)`: the not-connected guard,
\* then `await logger.log(...)`.
CallToolCheck(t) ==
  /\ tasks[t].pc = "ct_chk"
  /\ IF mcp = Null
     THEN FailRuns(t, tasks[t], "notconnected")
     ELSE /\ SetTask(t, [tasks[t] EXCEPT !.pc = "ct_call"])
          /\ UNCHANGED runVars
  /\ UNCHANGED <<nOps, cfgVars, sessVars, indexedRepoRoot,
                 indexPromise>>

\* callBudgeted's catch: whether it reports the error to a transport-error
\* callback, and whether it asks the peer for its tool list
InvokesTransportCallback(cls) == FALSE
ListsTools(cls) == TRUE

\* callBudgeted's catch block for a callTool failure of class cls.  The
\* listTools accessor of callKotaTool is `state.mcp!.listTools()`: it throws
\* at once when state.mcp is null (callBudgeted then rejects), it rejects
\* when the client has no connection (swallowed as an empty list), otherwise
\* it asks the peer.  callKotaToolStrict turns ok = false into an error.
OnCallFailure(t, rec, cls) ==
  LET r1 == [rec EXCEPT !.errClass = cls,
                        !.cb = IF InvokesTransportCallback(cls) THEN 1 ELSE 0]
  IN
  IF ~ListsTools(cls)
  THEN FailRuns(t, [r1 EXCEPT !.res = "fail", !.tools = "none"], "toolerr")
  ELSE IF mcp = Null
  THEN FailRuns(t, [r1 EXCEPT !.lt = 1, !.res = "throw"], "typeerror")
  ELSE IF ~HasHandle(mcp)
  THEN FailRuns(t, [r1 EXCEPT !.lt = 1, !.res = "fail", !.tools = "none"],
                "toolerr")
  ELSE /\ SetTask(t, [r1 EXCEPT !.lt = 1, !.pc = "ct_lt", !.h = mcp])
       /\ UNCHANGED runVars

\* callKotaTool's `finally { release() }` runs when callBudgeted has settled
\* (and, after a result, call_end is logged): the caller is past its RPC
\* and its listTools.
HoldsInFlight(rec) == rec.pc \in {"ct_rpc", "ct_lt"}

\* callKotaTool issues the call: state.inFlight.acquire(), then
\* callBudgeted -> state.mcp!.callTool(n, a).
CallToolIssue(t) ==
  /\ tasks[t].pc = "ct_call"
  /\ IF mcp = Null
     THEN OnCallFailure(t, tasks[t], "logical")
     ELSE /\ SetTask(t, [tasks[t] EXCEPT !.pc = "ct_rpc", !.h = mcp])
          /\ UNCHANGED runVars
  /\ IF HoldsInFlight(tasks'[t])
     THEN /\ inFlight' = Acquire(inFlight)
          /\ UNCHANGED <<drainSt, drainBy>>
     ELSE ReleaseFrom(Acquire(inFlight))
  /\ UNCHANGED <<nOps, cfgConfirmIndex, commitVars, pureVars, sessVars, indexedRepoRoot,
                 indexPromise>>

\* the peer's answer to callTool: a result, an error of the peer (or of a
\* client whose connection was closed), or a transport error (EPIPE,
\* ECONNRESET, ERR_STREAM_DESTROYED: the pipe to the subprocess is broken).
RpcOutcomes(h) ==
  IF conn[h] = "connected" THEN {"ok", "logical", "transport"}
  ELSE IF conn[h] = "broken" THEN {"transport"}
  ELSE {"logical"}

\* the pipe of a client after a call on it ended with outcome o
PipeAfter(h, o) ==
  IF o = "transport" /\ conn[h] = "connected"
  THEN [conn EXCEPT ![h] = "broken"]
  ELSE conn

\* `await opts.callTool(...)` resumes in callBudgeted.
RpcSettle(t) ==
  /\ tasks[t].pc = "ct_rpc"
  /\ \E o \in RpcOutcomes(tasks[t].h) :
       IF o = "ok"
       THEN /\ SetTask(t, IF tasks[t].tool = "index"
                          THEN [tasks[t] EXCEPT !.pc = "ix_head", !.res = "ok"]
                          ELSE [tasks[t] EXCEPT !.pc = "done", !.res = "ok",
                                                !.out = "ok"])
            /\ UNCHANGED <<conn, runVars>>
       ELSE /\ conn' = PipeAfter(tasks[t].h, o)
            /\ OnCallFailure(t, tasks[t], o)
  /\ IF HoldsInFlight(tasks'[t])
     THEN UNCHANGED trackVars
     ELSE ReleaseInFlight
  /\ UNCHANGED <<nOps, cfgConfirmIndex, commitVars, pureVars, kotaStatus, lastError, mcp,
                 nClients, indexedRepoRoot, indexPromise>>

\* `await opts.listTools().catch(...)` resumes: callBudgeted returns
\* ok = false, callKotaToolStrict throws.
ListToolsSettle(t) ==
  /\ tasks[t].pc = "ct_lt"
  /\ \E listed \in (IF conn[tasks[t].h] = "connected" THEN BOOLEAN
                     ELSE {FALSE}) :
       FailRuns(t, [tasks[t] EXCEPT !.res = "fail",
                      !.tools = IF listed THEN "list" ELSE "none"], "toolerr")
  /\ ReleaseInFlight
  /\ UNCHANGED <<nOps, cfgConfirmIndex, commitVars, pureVars, sessVars, indexedRepoRoot,
                 indexPromise>>

\* getHeadCommit: the trimmed output of `git rev-parse HEAD`, or null when
\* git fails
HeadCommits == {head, Null}

\* the index function after its RPC: `state.indexedAtCommit = await
\* getHeadCommit(...)` resumes and the function returns.
HeadRead(t) ==
  /\ tasks[t].pc = "ix_head"
  /\ runIdx' = [runIdx EXCEPT ![tasks[t].run] = "ok"]
  /\ \E got \in HeadCommits : indexedAtCommit' = got
  /\ SetTask(t, [tasks[t] EXCEPT !.pc = "ix_mark"])
  /\ UNCHANGED <<nOps, cfgConfirmIndex, trackVars, pureVars,
                 stalenessWarnedForHead, sessVars, indexedRepoRoot,
                 indexPromise, runSt, runErr, runForced, nRuns>>

\* ------------------------------------------------- /kota restart, shutdown
\* `state.mcp?.close()` up to its await: close() returns at once on a client
\* without connection, otherwise it awaits the SDK client's close.
CloseSync(t, rec, closing, after) ==
  IF IsConnected
  THEN SetTask(t, [rec EXCEPT !.pc = closing, !.h = mcp])
  ELSE SetTask(t, [rec EXCEPT !.pc = after])

\* KotaMcpClient.close resumes: this.client = null, unless the SDK close
\* threw (the callers swallow that).
CloseSettle(t, closing, after) ==
  /\ tasks[t].pc = closing
  /\ \E ok \in BOOLEAN :
       conn' = IF ok THEN [conn EXCEPT ![tasks[t].h] = "closed"] ELSE conn
  /\ SetTask(t, [tasks[t] EXCEPT !.pc = after])

StartRestart(t) ==
  /\ tasks[t].pc = "idle"
  /\ nOps < MaxOps
  /\ nOps' = nOps + 1
  /\ CloseSync(t, [IdleRec EXCEPT !.op = "restart"], "rs_close", "rs_fin")
  /\ UNCHANGED <<cfgVars, sessVars, indexedRepoRoot, indexPromise,
                 runVars>>

RestartClose(t) ==
  /\ CloseSettle(t, "rs_close", "rs_fin")
  /\ UNCHANGED <<nOps, cfgVars, kotaStatus, lastError, mcp, nClients,
                 indexedRepoRoot, indexPromise, runVars>>

\* /kota restart: state.indexedAtCommit = null,
\* state.stalenessWarnedForHead = null
AfterRestart_Keeps(v) == v
AfterRestart(v) == Null

\* the rest of /kota restart after `await state.mcp?.close()`
RestartFinish(t) ==
  /\ tasks[t].pc = "rs_fin"
  /\ mcp' = Null
  /\ kotaStatus' = "stopped"
  /\ indexedRepoRoot' = NoPath
  /\ indexedAtCommit' = AfterRestart(indexedAtCommit)
  /\ stalenessWarnedForHead' = AfterRestart(stalenessWarnedForHead)
  /\ SetTask(t, [tasks[t] EXCEPT !.pc = "done", !.out = "ok"])
  /\ UNCHANGED <<nOps, cfgConfirmIndex, trackVars, pureVars, lastError, conn,
                 nClients, indexPromise, runVars>>

\* session_shutdown up to its first await: state.inFlight.drain(3000)
StartShutdown(t) ==
  /\ tasks[t].pc = "idle"
  /\ nOps < MaxOps
  /\ nOps' = nOps + 1
  /\ SetTask(t, [IdleRec EXCEPT !.op = "shutdown", !.pc = "sd_drain"])
  /\ DrainCall(t)
  /\ UNCHANGED <<cfgConfirmIndex, commitVars, pureVars, sessVars, indexedRepoRoot,
                 indexPromise, runVars>>

\* the 3000 ms of the drain have elapsed
ShutdownTimeout(t) ==
  /\ tasks[t].pc = "sd_drain"
  /\ DrainTimeout(t)
  /\ UNCHANGED <<tasks, nOps, cfgConfirmIndex, commitVars, pureVars, sessVars,
                 indexedRepoRoot, indexPromise, runVars>>

\* `await state.inFlight.drain(3000)` resumes once the promise is resolved
DrainOver_NoWait(t) == TRUE
DrainOver(t) == drainSt[t] = "resolved"

\* the drain and logger.close() are over: `state.mcp?.close()`
ShutdownDrained(t) ==
  /\ tasks[t].pc = "sd_drain"
  /\ DrainOver(t)
  /\ CloseSync(t, tasks[t], "sd_close", "sd_fin")
  /\ UNCHANGED <<nOps, cfgVars, sessVars, indexedRepoRoot,
                 indexPromise, runVars>>

ShutdownClose(t) ==
  /\ CloseSettle(t, "sd_close", "sd_fin")
  /\ UNCHANGED <<nOps, cfgVars, kotaStatus, lastError, mcp, nClients,
                 indexedRepoRoot, indexPromise, runVars>>

\* the last statement of session_shutdown: state.mcp = null
ShutdownFinish(t) ==
  /\ tasks[t].pc = "sd_fin"
  /\ mcp' = Null
  /\ SetTask(t, [tasks[t] EXCEPT !.pc = "done", !.out = "ok"])
  /\ UNCHANGED <<nOps, cfgVars, kotaStatus, lastError, conn, nClients,
                 indexedRepoRoot, indexPromise, runVars>>

\* ------------------------------------------------------------- the session
Next ==
  \E t \in Tasks :
    \/ StartSearch(t)
    \/ StartKotaIndex(t)
    \/ StartCmdIndex(t)
    \/ ConnectSettle(t)
    \/ EnsureIndexedEnter(t)
    \/ ConfirmAnswer(t)
    \/ CallToolCheck(t)
    \/ CallToolIssue(t)
    \/ RpcSettle(t)
    \/ ListToolsSettle(t)
    \/ HeadRead(t)
    \/ MarkIndexed(t)
    \/ RunFinally(t)
    \/ AwaitRunSettled(t)
    \/ AfterIndexed(t)
    \/ StartRestart(t)
    \/ RestartClose(t)
    \/ RestartFinish(t)
    \/ StartShutdown(t)
    \/ ShutdownTimeout(t)
    \/ ShutdownDrained(t)
    \/ ShutdownClose(t)
    \/ ShutdownFinish(t)
    \/ Return(t)

Spec == Init /\ [][Next]_vars

\* ------------------------------------------- InFlightTracker on its own
\* the session state, which a tracker used on its own leaves alone
sessionVars == <<tasks, nOps, cfgConfirmIndex, sessVars, indexedRepoRoot,
                 indexPromise, runVars, commitVars, seqVars, handleCloses,
                 fnVars>>

\* calls of one release function that a behaviour makes
MaxRelCalls == 2

\* `if (released) return;`
AlreadyReleased_Never(h) == FALSE
AlreadyReleased(h) == released[h] = "released"

\* const release = tracker.acquire()
TrAcquire(h) ==
  /\ released[h] = "none"
  /\ \A g \in Handles : g < h => released[g] # "none"
  /\ inFlight' = Acquire(inFlight)
  /\ released' = [released EXCEPT ![h] = "held"]
  /\ UNCHANGED <<drainSt, drainBy, relCalls, sessionVars>>

\* release(), the first time or again
TrRelease(h) ==
  /\ released[h] # "none"
  /\ relCalls[h] < MaxRelCalls
  /\ relCalls' = [relCalls EXCEPT ![h] = @ + 1]
  /\ IF AlreadyReleased(h)
     THEN UNCHANGED <<trackVars, released>>
     ELSE /\ released' = [released EXCEPT ![h] = "released"]
          /\ ReleaseInFlight
  /\ UNCHANGED sessionVars

\* tracker.drain(timeoutMs) by a caller that has no drain pending
TrDrain(d) ==
  /\ drainSt[d] # "pending"
  /\ DrainCall(d)
  /\ UNCHANGED <<handleVars, sessionVars>>

TrTimeout(d) ==
  /\ DrainTimeout(d)
  /\ UNCHANGED <<handleVars, sessionVars>>

NextTracker ==
  \/ \E h \in Handles : TrAcquire(h) \/ TrRelease(h)
  \/ \E d \in Tasks : TrDrain(d) \/ TrTimeout(d)

SpecTracker == Init /\ [][NextTracker]_vars

\* the timers of the host run: a timer that is set fires
SpecTrackerFair == SpecTracker /\ \A d \in Tasks : WF_vars(TrTimeout(d))

\* -------------------------------------------- the operations one by one
\* The entry points run to their end one after the other (no two operations
\* overlap) while the repository's HEAD moves between them.

\* what the operations run one by one leave alone
idleVars == <<tasks, cfgConfirmIndex, indexPromise, runVars, trackVars,
              handleVars, handleCloses, fnVars>>

\* ensureConnected run to its end: the fast path, or a connect attempt that
\* completes (ok) or fails
SeqEnsureConnected(ok) ==
  IF IsConnected
  THEN /\ kotaStatus' = "running"
       /\ UNCHANGED <<lastError, mcp, conn, nClients>>
  ELSE /\ nClients < MaxClients
       /\ nClients' = nClients + 1
       /\ IF ok
          THEN /\ conn' = [conn EXCEPT ![nClients + 1] = "connected"]
               /\ mcp' = nClients + 1
               /\ kotaStatus' = "running"
               /\ lastError' = "none"
          ELSE /\ conn' = [conn EXCEPT ![nClients + 1] = "failed"]
               /\ mcp' = Null
               /\ kotaStatus' = "error"
               /\ lastError' = "connect"

\* ensureConnected returned normally
SeqConnects(ok) == IsConnected \/ ok

\* isIndexStale(indexedAtCommit, currentHead)
isIndexStale_Differ(at, cur) == at # cur
isIndexStale(at, cur) == at # Null /\ cur # Null /\ at # cur

\* checkStaleness gets as far as its warning
WarnsStale(got) ==
  /\ indexedAtCommit # Null
  /\ got # Null
  /\ stalenessWarnedForHead # got
  /\ isIndexStale(indexedAtCommit, got)

\* checkStaleness, with got the answer of getHeadCommit
checkStaleness(got) ==
  IF WarnsStale(got)
  THEN /\ stalenessWarnedForHead' = got
       /\ warnings' = [warnings EXCEPT ![got] = @ + 1]
  ELSE UNCHANGED <<stalenessWarnedForHead, warnings>>

\* A search-type tool, the kota_index tool or /kota index from its start to
\* its end: ensureConnected, ensureIndexed (no entry point passes force),
\* for a search-type tool checkStaleness when the repository was indexed
\* already, and the tool's RPC.  ok: the connect attempt completes, a: the
\* answer to the confirmation, rpc: the RPC succeeds, got: getHeadCommit.
SeqTool(kind, target) ==
  /\ nOps < MaxSeqOps
  /\ nOps' = nOps + 1
  /\ lastOp' = kind
  /\ \E ok \in BOOLEAN, a \in BOOLEAN, rpc \in BOOLEAN, got \in HeadCommits :
       LET rec == [IdleRec EXCEPT !.target = target]
           wasAlreadyIndexed == Indexed(target)
           runs == SeqConnects(ok) /\ ~SkipIndexing(rec)
           cancelled == /\ runs
                        /\ kind # "kota_index" /\ cfgConfirmIndex
                        /\ Refused(a)
           indexes == runs /\ ~cancelled
           indexed == indexes /\ rpc
       IN
       /\ SeqEnsureConnected(ok)
       /\ nIndexRpc' = IF indexes THEN nIndexRpc + 1 ELSE nIndexRpc
       /\ indexedAtCommit' = IF indexed THEN got ELSE indexedAtCommit
       /\ indexedRepoRoot' = IF indexed THEN target ELSE indexedRepoRoot
       /\ IF kind = "search" /\ SeqConnects(ok) /\ wasAlreadyIndexed
          THEN checkStaleness(got)
          ELSE UNCHANGED <<stalenessWarnedForHead, warnings>>
       /\ lastOut' = IF ~SeqConnects(ok) THEN "connect"
                     ELSE IF cancelled THEN "cancelled"
                     ELSE IF ~rpc /\ (indexes \/ kind = "search")
                     THEN "toolerr"
                     ELSE "ok"
  /\ UNCHANGED <<head, idleVars>>

SeqSearch == SeqTool("search", RepoRoot)
SeqKotaIndex == \E p \in Paths : SeqTool("kota_index", p)
SeqCmdIndex == SeqTool("cmd_index", RepoRoot)

\* /kota restart from its start to its end
SeqRestart ==
  /\ nOps < MaxSeqOps
  /\ nOps' = nOps + 1
  /\ lastOp' = "restart"
  /\ lastOut' = "ok"
  /\ \E ok \in BOOLEAN :
       conn' = IF IsConnected /\ ok THEN [conn EXCEPT ![mcp] = "closed"]
               ELSE conn
  /\ mcp' = Null
  /\ kotaStatus' = "stopped"
  /\ indexedRepoRoot' = NoPath
  /\ indexedAtCommit' = AfterRestart(indexedAtCommit)
  /\ stalenessWarnedForHead' = AfterRestart(stalenessWarnedForHead)
  /\ warnings' = [c \in Heads |-> 0]
  /\ UNCHANGED <<head, nIndexRpc, lastError, nClients, idleVars>>

\* a commit, a checkout or a pull moves HEAD
HeadMoves ==
  /\ \E c \in Heads \ {head} : head' = c
  /\ UNCHANGED <<nOps, sessVars, indexedRepoRoot, commitVars, warnings,
                 nIndexRpc, lastOp, lastOut, idleVars>>

NextSeq ==
  \/ SeqSearch
  \/ SeqKotaIndex
  \/ SeqCmdIndex
  \/ SeqRestart
  \/ HeadMoves

SpecSeq == Init /\ [][NextSeq]_vars

\* ------------------------------------------- KotaMcpClient.close on its own
\* One client, connected or never connected, held in state.mcp, and callers
\* that call close() on it; a call may be made while another one awaits.
InitClose ==
  /\ SessionIdle
  /\ FnIdle
  /\ TrackerInit
  /\ mcp = 1
  /\ nClients = 1
  /\ \E st \in {"connected", "unused"} :
       conn = [c \in Clients |-> IF c = 1 THEN st ELSE "unused"]

\* close() up to its await; a connected client calls close() on its handle
CloseCall(t) ==
  /\ tasks[t].pc = "idle"
  /\ nOps < MaxCloseCalls
  /\ nOps' = nOps + 1
  /\ CloseSync(t, [IdleRec EXCEPT !.op = "close"], "cl_close", "done")
  /\ handleCloses' = IF IsConnected
                     THEN [handleCloses EXCEPT ![mcp] = @ + 1]
                     ELSE handleCloses
  /\ UNCHANGED <<cfgConfirmIndex, sessVars, indexedRepoRoot, indexPromise,
                 runVars, trackVars, commitVars, handleVars, seqVars,
                 fnVars>>

\* `await this.client.close()` resumes
CloseDone(t) ==
  /\ CloseSettle(t, "cl_close", "done")
  /\ UNCHANGED <<nOps, cfgConfirmIndex, kotaStatus, lastError, mcp, nClients,
                 indexedRepoRoot, indexPromise, runVars, trackVars,
                 commitVars, pureVars>>

NextClose ==
  \E t \in Tasks :
    \/ CloseCall(t)
    \/ CloseDone(t)
    \/ Return(t)

SpecClose == InitClose /\ [][NextClose]_vars

\* ------------------------------------------------------------ evictBlobs
\* everything the program above works on
baseVars == <<tasks, nOps, cfgConfirmIndex, sessVars, indexedRepoRoot,
              indexPromise, runVars, commitVars, seqVars, handleCloses,
              trackVars, handleVars>>
progVars == <<baseVars, calcVars>>

\* Time is counted in half days: Date.now() and 86_400_000 ms
EvNow == 4
DayMs == 2

\* what a directory of the blob cache holds
Mtimes == {0, 2, 3}
Sizes == {1, 2}
Entries ==
  {NoEntry, [kind |-> "dir", mtimeMs |-> 0, size |-> 1]}
    \cup [kind : {"file"}, mtimeMs : Mtimes, size : Sizes]

RECURSIVE Asc(_)
\* the names of a set in the order readdir lists them
Asc(S) ==
  IF S = {} THEN <<>>
  ELSE LET m == CHOOSE x \in S : \A y \in S : x <= y
       IN <<m>> \o Asc(S \ {m})

\* the comparator (a, b) => a.mtimeMs - b.mtimeMs keeps a before b
KeepsBefore_NewestFirst(a, b) == a.mtimeMs >= b.mtimeMs
KeepsBefore(a, b) == a.mtimeMs <= b.mtimeMs

RECURSIVE InsertByMtime(_, _, _)
\* f put into a list sorted by mtimeMs, behind the entries that are not newer
InsertByMtime(d, sorted, f) ==
  IF sorted = <<>> THEN <<f>>
  ELSE IF KeepsBefore(d[Head(sorted)], d[f])
  THEN <<Head(sorted)>> \o InsertByMtime(d, Tail(sorted), f)
  ELSE <<f>> \o sorted

RECURSIVE SortByMtime(_, _)
\* survivors.sort((a, b) => a.mtimeMs - b.mtimeMs): oldest first, stable
SortByMtime(d, fs) ==
  IF fs = <<>> THEN <<>>
  ELSE InsertByMtime(d, SortByMtime(d, SubSeq(fs, 1, Len(fs) - 1)),
                     fs[Len(fs)])

RECURSIVE SumSizes(_, _)
\* survivors.reduce((sum, f) => sum + f.size, 0)
SumSizes(d, fs) ==
  IF fs = <<>> THEN 0 ELSE d[Head(fs)].size + SumSizes(d, Tail(fs))

\* now - f.mtimeMs > maxAgeMs
IsOld(e, f) == EvNow - f.mtimeMs > e.maxAgeDays * DayMs

\* the size loop stops: totalSize <= opts.maxSizeBytes
WithinBudget_Always(e, totalSize) == TRUE
WithinBudget(e, totalSize) == totalSize <= e.maxSizeBytes

\* removedCount++ stands behind the await of unlink inside the try block:
\* it runs when the unlink succeeded
CountAfter_Attempt(count, unlinked) == count + 1
CountAfter(count, unlinked) == IF unlinked THEN count + 1 ELSE count

RECURSIVE AgePass(_, _, _, _)
\* the loop over the files: unlink the ones older than maxAgeDays; a file
\* that is young, or whose unlink fails, is pushed onto the survivors
AgePass(e, unlinkFail, fs, acc) ==
  IF fs = <<>> THEN acc
  ELSE LET f == Head(fs)
           unlinked == f \notin unlinkFail
       IN IF ~IsOld(e, e.dir[f])
          THEN AgePass(e, unlinkFail, Tail(fs),
                       [acc EXCEPT !.survivors = Append(@, f)])
          ELSE IF unlinked
          THEN AgePass(e, unlinkFail, Tail(fs),
                       [acc EXCEPT
                          !.removed = @ \cup {f},
                          !.removedCount = CountAfter(@, unlinked),
                          !.removedBytes = @ + e.dir[f].size])
          ELSE AgePass(e, unlinkFail, Tail(fs),
                       [acc EXCEPT
                          !.survivors = Append(@, f),
                          !.failed = TRUE,
                          !.ageFailed = @ \cup {f},
                          !.removedCount = CountAfter(@, unlinked)])

RECURSIVE SizePass(_, _, _, _, _)
\* the loop over the sorted survivors: unlink the oldest while the total is
\* over the budget; an unlink that fails is skipped.  acc collects the names
\* removed, the two totals and whether an unlink failed.
SizePass(e, unlinkFail, fs, totalSize, acc) ==
  IF fs = <<>> \/ WithinBudget(e, totalSize) THEN acc
  ELSE IF Head(fs) \in unlinkFail
  THEN SizePass(e, unlinkFail, Tail(fs), totalSize,
                [acc EXCEPT !.failed = TRUE,
                            !.sizeFailed = @ \cup {Head(fs)},
                            !.removedCount = CountAfter(@, FALSE)])
  ELSE SizePass(e, unlinkFail, Tail(fs), totalSize - e.dir[Head(fs)].size,
                [acc EXCEPT !.removed = @ \cup {Head(fs)},
                            !.removedCount = CountAfter(@, TRUE),
                            !.removedBytes = @ + e.dir[Head(fs)].size])

\* the two passes of an unlink that may fail
Passes == {"age", "size"}

\* evictBlobs on the directory of e, with the entries whose stat fails and
\* the files whose unlink fails in each pass
evictBlobs(e, statFail, unlinkFail) ==
  LET entries == Asc({n \in Names : e.exists /\ e.dir[n].kind # "absent"})
      files == SelectSeq(entries,
                 LAMBDA n : n \notin statFail /\ e.dir[n].kind = "file")
      aged == AgePass(e, unlinkFail["age"], files,
                      [removed |-> {}, survivors |-> <<>>, failed |-> FALSE,
                       ageFailed |-> {}, sizeFailed |-> {},
                       removedCount |-> 0, removedBytes |-> 0])
      survivors == SortByMtime(e.dir, aged.survivors)
      totalSize == SumSizes(e.dir, survivors)
      sized == SizePass(e, unlinkFail["size"], survivors, totalSize,
                        [aged EXCEPT !.survivors = <<>>, !.failed = FALSE])
  IN [e EXCEPT
        !.done = TRUE,
        !.failed = \/ \E i \in 1..Len(entries) : entries[i] \in statFail
                   \/ aged.failed
                   \/ sized.failed,
        !.statted = {files[i] : i \in 1..Len(files)},
        !.aged = aged.removed,
        !.ageFailed = sized.ageFailed,
        !.sizeFailed = sized.sizeFailed,
        !.totalSize = totalSize,
        !.removed = sized.removed,
        !.removedCount = sized.removedCount,
        !.removedBytes = sized.removedBytes]

\* the regular files of the directory once the call has returned
Remaining(e) == {n \in Names : e.dir[n].kind = "file" /\ n \notin e.removed}

\* a directory, which may not exist, and the options of one call
InitEvict ==
  /\ SessionIdle
  /\ NoClient
  /\ TrackerInit
  /\ bl = NoBlobs
  /\ pr = NoPrune
  /\ CalcIdle
  /\ \E exists \in BOOLEAN, d \in [Names -> Entries],
        age \in {1, 2}, budget \in {0, 2, 3} :
       /\ exists \/ d = [n \in Names |-> NoEntry]
       /\ ev = [NoEvict EXCEPT !.exists = exists, !.dir = d,
                               !.maxAgeDays = age, !.maxSizeBytes = budget]

Evict ==
  /\ ~ev.done
  /\ \E statFail \in SUBSET {n \in Names : ev.dir[n].kind # "absent"},
        unlinkFail \in [Passes -> SUBSET {n \in Names : ev.dir[n].kind = "file"}] :
       ev' = evictBlobs(ev, statFail, unlinkFail)
  /\ UNCHANGED <<progVars, bl, pr>>

NextEvict == Evict

SpecEvict == InitEvict /\ [][NextEvict]_vars

\* -------------------------------------------------------------- writeBlob
\* createHash("sha256").update(content).digest("hex"): a number per content,
\* different for different contents (sha256 has no collision among them)
Sha256_Constant(content) == 7
Sha256(content) ==
  IF Len(content) = 0 THEN 7
  ELSE IF Len(content) = 1 THEN 10 + content[1]
  ELSE 100 + 10 * content[1] + content[2]

\* path.join(opts.dir, `${blobId}${ext}`), inside the one directory
BlobPath(blobId, ext) == <<blobId, ext>>

\* a file after a write of chunk c at position pos of a descriptor; a write
\* behind the end of the file leaves a hole of zeros
WriteAt(f, pos, c) ==
  [i \in 1..(IF pos > Len(f) THEN pos ELSE Len(f)) |->
     IF i = pos THEN c ELSE IF i <= Len(f) THEN f[i] ELSE 0]

\* files with one path set to f
WithFile(files, p, f) ==
  [q \in DOMAIN files \cup {p} |-> IF q = p THEN f ELSE files[q]]

\* writeBlob up to `await mkdir(...)`: ext, blobId and blobPath are computed
BlStart(t) ==
  /\ bl.w[t].pc = "idle"
  /\ bl.n < MaxBlobWrites
  /\ \E content \in Contents, ext \in Exts :
       bl' = [bl EXCEPT
                !.n = @ + 1,
                !.w[t] = [pc |-> "mkdir", content |-> content, ext |-> ext,
                          blobId |-> Sha256(content),
                          blobPath |-> BlobPath(Sha256(content), ext),
                          off |-> 0]]
  /\ UNCHANGED <<progVars, ev, pr>>

\* mkdir(dir, {recursive: true}) is done; writeFile is called
BlMkdir(t) ==
  /\ bl.w[t].pc = "mkdir"
  /\ bl' = [bl EXCEPT !.dirExists = TRUE, !.w[t].pc = "open"]
  /\ UNCHANGED <<progVars, ev, pr>>

\* writeFile opens the path with flag 'w': the file is created or truncated
BlOpen(t) ==
  /\ bl.w[t].pc = "open"
  /\ bl' = [bl EXCEPT
              !.files = WithFile(@, bl.w[t].blobPath, <<>>),
              !.opened = @ \cup {<<bl.w[t].content, bl.w[t].ext>>},
              !.w[t].pc = "write"]
  /\ UNCHANGED <<progVars, ev, pr>>

\* writeFile writes the next chunk at the position of its descriptor
BlWrite(t) ==
  /\ bl.w[t].pc = "write"
  /\ bl.w[t].off < Len(bl.w[t].content)
  /\ bl' = [bl EXCEPT
              !.files = WithFile(@, bl.w[t].blobPath,
                          WriteAt(@[bl.w[t].blobPath], bl.w[t].off + 1,
                                  bl.w[t].content[bl.w[t].off + 1])),
              !.w[t].off = @ + 1]
  /\ UNCHANGED <<progVars, ev, pr>>

\* everything is written: writeFile closes the file and writeBlob returns
\* { blobId, blobPath, bytes }
BlClose(t) ==
  /\ bl.w[t].pc = "write"
  /\ bl.w[t].off = Len(bl.w[t].content)
  /\ bl' = [bl EXCEPT !.w[t].pc = "done"]
  /\ UNCHANGED <<progVars, ev, pr>>

\* the caller has taken the result
BlReturn(t) ==
  /\ bl.w[t].pc = "done"
  /\ bl' = [bl EXCEPT
              !.returned = @ \cup {[content |-> bl.w[t].content,
                                    ext |-> bl.w[t].ext,
                                    blobId |-> bl.w[t].blobId,
                                    blobPath |-> bl.w[t].blobPath]},
              !.w[t] = NoWrite]
  /\ UNCHANGED <<progVars, ev, pr>>

NextBlob ==
  \E t \in Tasks :
    \/ BlStart(t)
    \/ BlMkdir(t)
    \/ BlOpen(t)
    \/ BlWrite(t)
    \/ BlClose(t)
    \/ BlReturn(t)

SpecBlob == Init /\ [][NextBlob]_vars

\* --------------------------------------------------- pruneContextMessages
\* The messages of a context. toolName is NoToolName when it is not a string;
\* content is <<>> without a text block, else one block with the length of
\* its text; a placeholder block names the tool and the length it replaces.
TextLens == {1, 3}
NoToolName == "(not a string)"
TextBlock(n) == [type |-> "text", chars |-> n, placeholderOf |-> <<>>]
NoDetails == [pruned |-> FALSE, originalChars |-> 0]
Msg(role, toolName, content) ==
  [role |-> role, toolName |-> toolName, content |-> content,
   details |-> NoDetails, timestamp |-> 0]
MessageKinds ==
  {Msg("user", NoToolName, <<TextBlock(1)>>),
   Msg("assistant", NoToolName, <<TextBlock(3)>>),
   Msg("toolResult", "read", <<>>),
   Msg("toolResult", "bash", <<TextBlock(3)>>),
   Msg("toolResult", NoToolName, <<TextBlock(3)>>)}
    \cup {Msg("toolResult", "read", <<TextBlock(n)>>) : n \in TextLens}

\* the i-th message of a context carries timestamp i
Stamped(kinds) == [i \in DOMAIN kinds |-> [kinds[i] EXCEPT !.timestamp = i]]

isToolResult(m) == m.role = "toolResult" /\ m.toolName # NoToolName

\* the length of the text of the first text block, 0 without one
toolText(m) == IF Len(m.content) = 0 THEN 0 ELSE m.content[1].chars

userIndexes(messages) == {i \in DOMAIN messages : messages[i].role = "user"}

\* userIndexes[userIndexes.length - keepRecentTurns], or the first index
cutoff_End(messages, keepRecentTurns) == Len(messages) + 1
cutoff(messages, keepRecentTurns) ==
  LET U == userIndexes(messages) IN
    IF Cardinality(U) > keepRecentTurns
      THEN CHOOSE i \in U : Cardinality({j \in U : j >= i}) = keepRecentTurns
      ELSE 1

\* the placeholder put in the place of a tool result
Pruned_NoCount(m) ==
  [m EXCEPT
     !.content = <<[type |-> "text", chars |-> 90,
                    placeholderOf |-> <<m.toolName, 0>>]>>,
     !.details = [pruned |-> TRUE, originalChars |-> 0]]
Pruned(m) ==
  [m EXCEPT
     !.content = <<[type |-> "text", chars |-> 90,
                    placeholderOf |-> <<m.toolName, toolText(m)>>]>>,
     !.details = [pruned |-> TRUE, originalChars |-> toolText(m)]]

Max0_One(n) == IF n < 1 THEN 1 ELSE n
Max0(n) == IF n < 0 THEN 0 ELSE n

pruneContextMessages(p) ==
  LET keepRecentTurns == Max0(p.keepRecentTurns) IN
    IF keepRecentTurns = 0 THEN p.messages
    ELSE [idx \in DOMAIN p.messages |->
            LET m == p.messages[idx] IN
              IF idx >= cutoff(p.messages, keepRecentTurns) THEN m
              ELSE IF ~isToolResult(m) THEN m
              ELSE IF m.toolName \notin p.pruneToolNames THEN m
              ELSE IF toolText(m) <= p.maxToolChars THEN m
              ELSE Pruned(m)]

\* a context of up to MaxMsgs messages and the options of one call
InitPrune ==
  /\ SessionIdle
  /\ NoClient
  /\ TrackerInit
  /\ ev = NoEvict
  /\ bl = NoBlobs
  /\ CalcIdle
  /\ \E n \in 0..MaxMsgs :
       \E kinds \in [1..n -> MessageKinds],
          keep \in {-1, 0, 1, 2}, maxChars \in {0, 2},
          names \in {{}, {"read"}, {"read", "bash"}} :
         pr = [NoPrune EXCEPT !.messages = Stamped(kinds),
                              !.keepRecentTurns = keep,
                              !.maxToolChars = maxChars,
                              !.pruneToolNames = names]

PruneCall ==
  /\ ~pr.done
  /\ pr' = [pr EXCEPT !.out = pruneContextMessages(pr), !.done = TRUE]
  /\ UNCHANGED <<progVars, ev, bl>>

NextPrune == PruneCall

SpecPrune == InitPrune /\ [][NextPrune]_vars

\* ---------------------------------------------------- computePruneSettings
\* the context size from which the settings are tightened
TightenFrom == 120000

BelowThreshold_Incl(tokens) == tokens <= TightenFrom
BelowThreshold(tokens) == tokens < TightenFrom

MaxOf(a, b) == IF a >= b THEN a ELSE b

\* Math.floor(n * 0.66), for a whole n
Floor66(n) == (n * 66) \div 100

computePruneSettings(base, tokensDefined, tokens) ==
  IF ~tokensDefined \/ tokens = 0 THEN base
  ELSE IF BelowThreshold(tokens) THEN base
  ELSE [keepRecentTurns |-> MaxOf(1, base.keepRecentTurns - 1),
        maxToolChars |-> MaxOf(400, Floor66(base.maxToolChars))]

\* the settings of a configuration and what getContextUsage answers
InitSettings ==
  /\ SessionIdle
  /\ NoClient
  /\ TrackerInit
  /\ ev = NoEvict
  /\ bl = NoBlobs
  /\ pr = NoPrune
  /\ tc = NoTruncate
  /\ lg = NoLog
  /\ ce = NoConnect
  /\ sc = NoStale
  /\ \E keep \in 0..3, maxChars \in {1, 400, 606, 607, 1200, 5000},
        defined \in BOOLEAN,
        tokens \in {0, 1, 100000, 119999, 120000, 120001, 200000} :
       /\ defined \/ tokens = 0
       /\ ps = [NoSettings EXCEPT
                  !.base = [keepRecentTurns |-> keep,
                            maxToolChars |-> maxChars],
                  !.tokensDefined = defined,
                  !.tokens = tokens]

SettingsCall ==
  /\ ~ps.done
  /\ ps' = [ps EXCEPT
              !.out = computePruneSettings(ps.base, ps.tokensDefined,
                                           ps.tokens),
              !.done = TRUE]
  /\ UNCHANGED <<baseVars, ev, bl, pr, tc, lg, ce, sc>>

NextSettings == SettingsCall

SpecSettings == InitSettings /\ [][NextSettings]_vars

\* ------------------------------------------------------------ truncateChars
\* A string is a list of characters. maxChars is counted in halves of a
\* character, so that a budget that is not whole can be given.
Halves == 2
Ellipsis == "..."
Chars == {"a", Ellipsis}

\* ToIntegerOrInfinity of h halves: towards zero
Trunc(h) == IF h >= 0 THEN h \div Halves ELSE -((-h) \div Halves)

\* input.slice(0, end) for an end given in halves
SliceTo(input, endHalves) ==
  LET e == Trunc(endHalves)
      to == IF e < 0 THEN MaxOf(Len(input) + e, 0)
            ELSE IF e > Len(input) THEN Len(input) ELSE e
  IN SubSeq(input, 1, to)

\* the end of the slice that is kept: maxChars - 1
KeptEnd_All(maxChars) == maxChars
KeptEnd(maxChars) == maxChars - Halves

truncateChars(input, maxChars) ==
  IF maxChars <= 0 THEN <<>>
  ELSE IF Len(input) * Halves <= maxChars THEN input
  ELSE IF maxChars = Halves THEN <<Ellipsis>>
  ELSE SliceTo(input, KeptEnd(maxChars)) \o <<Ellipsis>>

Strings(n) == UNION {[1..k -> Chars] : k \in 0..n}

\* a text of up to MaxChars characters and a budget
InitTruncate ==
  /\ SessionIdle
  /\ NoClient
  /\ TrackerInit
  /\ ev = NoEvict
  /\ bl = NoBlobs
  /\ pr = NoPrune
  /\ ps = NoSettings
  /\ lg = NoLog
  /\ ce = NoConnect
  /\ sc = NoStale
  /\ \E input \in Strings(MaxChars),
        maxChars \in (-Halves)..((MaxChars + 1) * Halves) :
       tc = [NoTruncate EXCEPT !.input = input, !.maxChars = maxChars]

TruncateCall ==
  /\ ~tc.done
  /\ tc' = [tc EXCEPT !.out = truncateChars(tc.input, tc.maxChars),
                      !.done = TRUE]
  /\ UNCHANGED <<baseVars, ev, bl, pr, ps, lg, ce, sc>>

NextTruncate == TruncateCall

SpecTruncate == InitTruncate /\ [][NextTruncate]_vars

\* ----------------------------------------------- ensureConnected on its own
\* Callers that run ensureConnected and nothing else, with every await of it
\* a step: `await client.connect()`, then `await logger.log(...)` after the
\* state writes of the try block or of the catch block, then the return or
\* the rethrow.

\* what ensureConnected never writes
connectFrame == <<cfgVars, indexedRepoRoot, indexPromise, runVars>>

\* a caller enters ensureConnected
CnStart(t) ==
  /\ tasks[t].pc = "idle"
  /\ nOps < MaxOps
  /\ nOps' = nOps + 1
  /\ ECSync(t, [IdleRec EXCEPT !.op = "connect"], "done")
  /\ UNCHANGED <<lastError, mcp, connectFrame>>

\* `await client.connect()` resumes: the state writes up to logger.log
CnSettle(t) ==
  /\ tasks[t].pc = "ec_wait"
  /\ \E ok \in BOOLEAN :
       IF ok
       THEN /\ conn' = [conn EXCEPT ![tasks[t].client] = "connected"]
            /\ mcp' = tasks[t].client
            /\ kotaStatus' = "running"
            /\ lastError' = "none"
            /\ SetTask(t, [tasks[t] EXCEPT !.pc = "ec_log", !.res = "ok"])
       ELSE /\ conn' = [conn EXCEPT ![tasks[t].client] = "failed"]
            /\ mcp' = Null
            /\ kotaStatus' = "error"
            /\ lastError' = "connect"
            /\ SetTask(t, [tasks[t] EXCEPT !.pc = "ec_log",
                                           !.res = "connect"])
  /\ UNCHANGED <<nOps, nClients, connectFrame>>

\* `await logger.log(...)` resumes: ensureConnected returns, or rethrows e
CnLogged(t) ==
  /\ tasks[t].pc = "ec_log"
  /\ SetTask(t, [tasks[t] EXCEPT !.pc = "done", !.out = tasks[t].res])
  /\ UNCHANGED <<nOps, sessVars, connectFrame>>

NextConnect ==
  \E t \in Tasks :
    \/ CnStart(t)
    \/ CnSettle(t)
    \/ CnLogged(t)
    \/ Return(t)

SpecConnect == Init /\ [][NextConnect]_vars

\* ------------------------------------------------- KotaMcpClient.connect
\* One connect() call on a new client, from the spawn to its end. What
\* happened: whether the timer fired (didTimeout), whether the handshake
\* completed, the failure of client.connect(transport) otherwise ("enoent":
\* the spawn reported ENOENT, "closed": any other failure), the configured
\* command, and the lines the subprocess wrote to stderr.

\* a line of stderr: blank, a text, a line that says bun is missing, and a
\* line that says so of a command whose name starts with bun
StderrLines == {"blank", "boom", "bunMissing", "bundleMissing"}
MaxStderrLines == 2
StderrTexts == UNION {[1..n -> StderrLines] : n \in 0..MaxStderrLines}

\* hasBunMissingInStderr: some line names bun and matches a pattern
hasBunMissingInStderr(stderrText) ==
  \E i \in DOMAIN stderrText : stderrText[i] = "bunMissing"

\* toStderrSnippet: runs of whitespace become one space, the ends are trimmed
RECURSIVE toStderrSnippet(_)
toStderrSnippet(stderrText) ==
  IF stderrText = <<>> THEN <<>>
  ELSE IF Head(stderrText) = "blank" THEN toStderrSnippet(Tail(stderrText))
  ELSE <<Head(stderrText)>> \o toStderrSnippet(Tail(stderrText))

\* `didTimeout || error.message === timeoutErrorMessage`
TimedOut_Never(c) == FALSE
TimedOut(c) == c.didTimeout \/ c.error = "timeoutError"

isSpawnEnoent(error) == error = "enoent"

\* the catch block of connect(): what is thrown
Classify(c) ==
  IF TimedOut(c) THEN [kind |-> "timeout", text |-> <<>>]
  ELSE IF (c.commandIsBun /\ isSpawnEnoent(c.error))
            \/ hasBunMissingInStderr(c.stderrText)
    THEN [kind |-> "bunNotFound", text |-> <<>>]
  ELSE IF toStderrSnippet(c.stderrText) # <<>>
    THEN [kind |-> "subprocessFailed",
          text |-> toStderrSnippet(c.stderrText)]
  ELSE [kind |-> "raw", text |-> <<c.error>>]

\* what Promise.race([client.connect(transport), timeoutPromise]) rejects
\* with, if it rejects
RaceErrors(didTimeout) ==
  IF didTimeout THEN {"timeoutError", "enoent", "closed"}
  ELSE {"enoent", "closed"}

InitConnectCall ==
  /\ SessionIdle
  /\ NoClient
  /\ TrackerInit
  /\ ev = NoEvict
  /\ bl = NoBlobs
  /\ pr = NoPrune
  /\ ps = NoSettings
  /\ tc = NoTruncate
  /\ lg = NoLog
  /\ sc = NoStale
  /\ \E didTimeout \in BOOLEAN, commandIsBun \in BOOLEAN,
        handshakeOk \in BOOLEAN, stderrText \in StderrTexts :
       \E error \in RaceErrors(didTimeout) \cup {"none"} :
         /\ handshakeOk <=> error = "none"
         /\ ce = [NoConnect EXCEPT !.didTimeout = didTimeout,
                                   !.commandIsBun = commandIsBun,
                                   !.handshakeOk = handshakeOk,
                                   !.error = error,
                                   !.stderrText = stderrText]

\* connect() to its end: this.client = client, or the classified error
ConnectCall ==
  /\ ~ce.done
  /\ ce' = IF ce.handshakeOk
           THEN [ce EXCEPT !.client = TRUE, !.done = TRUE]
           ELSE [ce EXCEPT !.thrown = Classify(ce), !.done = TRUE]
  /\ UNCHANGED <<baseVars, ev, bl, pr, ps, tc, lg, sc>>

NextConnectCall == ConnectCall

SpecConnectCall == InitConnectCall /\ [][NextConnectCall]_vars

\* ------------------------------------------ checkStaleness calls that overlap
\* The fast path of ensureRepoIndexed calls checkStaleness; the calls of
\* tool executions that overlap interleave at their awaits, HEAD moves, and
\* an index run that succeeds records a new indexedAtCommit.
MaxStaleOps == 4

\* what the staleness checks leave alone
staleFrame == <<tasks, cfgConfirmIndex, sessVars, indexedRepoRoot,
                indexPromise, runVars, nIndexRpc, lastOp, lastOut,
                handleCloses, trackVars, handleVars, ev, bl, pr,
                ps, tc, lg, ce>>

\* checkStaleness up to `await getHeadCommit(...)`
ScStart(t) ==
  /\ sc.pc[t] = "idle"
  /\ nOps < MaxStaleOps
  /\ nOps' = nOps + 1
  /\ indexedAtCommit # Null
  /\ \E ui \in BOOLEAN :
       sc' = [sc EXCEPT !.pc[t] = "head", !.hasUI[t] = ui]
  /\ UNCHANGED <<commitVars, head, warnings, staleFrame>>

\* whether the check goes on to its warning after the test of the HEAD it
\* was warned for last
PassesWarnedTest(got) == stalenessWarnedForHead # got

\* getHeadCommit has answered: the tests of HEAD, of the HEAD warned for and
\* of isIndexStale, then `await logger.log("index", "stale_detected", ...)`
ScHead(t) ==
  /\ sc.pc[t] = "head"
  /\ \E got \in HeadCommits :
       sc' = IF /\ got # Null
                /\ PassesWarnedTest(got)
                /\ isIndexStale(indexedAtCommit, got)
             THEN [sc EXCEPT !.pc[t] = "log", !.got[t] = got]
             ELSE [sc EXCEPT !.pc[t] = "idle", !.got[t] = got]
  /\ UNCHANGED <<nOps, commitVars, head, warnings, staleFrame>>

\* logger.log has settled: ctx.ui.notify when there is a UI, then
\* `state.stalenessWarnedForHead = head`
ScLogged(t) ==
  /\ sc.pc[t] = "log"
  /\ warnings' = IF sc.hasUI[t]
                 THEN [warnings EXCEPT ![sc.got[t]] = @ + 1]
                 ELSE warnings
  /\ stalenessWarnedForHead' = sc.got[t]
  /\ sc' = [sc EXCEPT !.pc[t] = "idle", !.sinceIndex = @ + 1]
  /\ UNCHANGED <<nOps, indexedAtCommit, head, staleFrame>>

\* the index function of an entry point ends:
\* `state.indexedAtCommit = await getHeadCommit(...)`
ScIndexed ==
  /\ nOps < MaxStaleOps
  /\ nOps' = nOps + 1
  /\ \E got \in HeadCommits : indexedAtCommit' = got
  /\ sc' = [sc EXCEPT !.sinceIndex = 0]
  /\ UNCHANGED <<stalenessWarnedForHead, head, warnings, staleFrame>>

ScHeadMoves ==
  /\ \E c \in Heads \ {head} : head' = c
  /\ UNCHANGED <<nOps, commitVars, warnings, sc, staleFrame>>

NextStale ==
  \/ \E t \in Tasks : ScStart(t) \/ ScHead(t) \/ ScLogged(t)
  \/ ScIndexed
  \/ ScHeadMoves

SpecStale == Init /\ [][NextStale]_vars

\* ------------------------------------- operations with a logger that fails
\* The operations of a session run one by one, each from its start to its
\* end, with an inner logger whose log() and close() may reject and an
\* evictBlobs that may reject.

\* what these operations leave alone
quietVars == <<tasks, cfgConfirmIndex, indexedRepoRoot, indexPromise,
               runVars, commitVars, seqVars, handleCloses, trackVars,
               handleVars, ev, bl, pr, ps, tc, ce, sc>>

\* makeSafeLogger: whether logger.log() / logger.close() rejects when the
\* inner logger does
LoggerRejects_Unwrapped(innerFails) == innerFails
LoggerRejects(innerFails) == FALSE

\* ensureConnected to its end; out is how it ended: "ok", or the error thrown
LgEnsureConnected(ok, innerFails, out) ==
  IF IsConnected
  THEN /\ kotaStatus' = "running"
       /\ out = "ok"
       /\ UNCHANGED <<lastError, mcp, conn, nClients>>
  ELSE /\ nClients < MaxClients
       /\ nClients' = nClients + 1
       /\ IF ok /\ ~LoggerRejects(innerFails)
          THEN /\ conn' = [conn EXCEPT ![nClients + 1] = "connected"]
               /\ mcp' = nClients + 1
               /\ kotaStatus' = "running"
               /\ lastError' = "none"
               /\ out = "ok"
          ELSE /\ conn' = [conn EXCEPT ![nClients + 1] =
                             IF ok THEN "connected" ELSE "failed"]
               /\ mcp' = Null
               /\ kotaStatus' = "error"
               /\ lastError' = IF ok THEN "log" ELSE "connect"
               /\ out = IF LoggerRejects(innerFails) THEN "log"
                        ELSE "connect"

\* a connect attempt on its own (the /kota status path of ensureConnected)
LgConnect(innerFails, flag) ==
  /\ nOps < MaxSeqOps
  /\ nOps' = nOps + 1
  /\ \E ok \in BOOLEAN, out \in {"ok", "connect", "log"} :
       /\ LgEnsureConnected(ok, innerFails, out)
       /\ lg' = [op |-> "connect", out |-> out, notify |-> "none",
                 logFailed |-> flag, evictFailed |-> FALSE]
  /\ UNCHANGED quietVars

\* callKotaTool: ensureConnected, log call_start, the budgeted call, log
\* call_end, release
LgToolCall(innerFails, flag) ==
  /\ nOps < MaxSeqOps
  /\ nOps' = nOps + 1
  /\ \E ok \in BOOLEAN, rpc \in BOOLEAN, out \in {"ok", "connect", "log"} :
       /\ LgEnsureConnected(ok, innerFails, out)
       /\ lg' = [op |-> "tool",
                 out |-> IF out # "ok" THEN out
                         ELSE IF LoggerRejects(innerFails) THEN "log"
                         ELSE IF rpc THEN "ok" ELSE "toolerr",
                 notify |-> "none",
                 logFailed |-> flag, evictFailed |-> FALSE]
  /\ UNCHANGED quietVars

\* session_shutdown: drain (nothing in flight), logger.close(), close the
\* client, state.mcp = null
LgShutdown(innerFails, flag) ==
  /\ nOps < MaxSeqOps
  /\ nOps' = nOps + 1
  /\ IF LoggerRejects(innerFails)
     THEN /\ UNCHANGED <<mcp, conn>>
          /\ lg' = [op |-> "shutdown", out |-> "log", notify |-> "none",
                    logFailed |-> flag, evictFailed |-> FALSE]
     ELSE /\ mcp' = Null
          /\ \E closes \in BOOLEAN :
               conn' = IF IsConnected /\ closes
                       THEN [conn EXCEPT ![mcp] = "closed"] ELSE conn
          /\ lg' = [op |-> "shutdown", out |-> "ok", notify |-> "none",
                    logFailed |-> flag, evictFailed |-> FALSE]
  /\ UNCHANGED <<kotaStatus, lastError, nClients, quietVars>>

\* whether the rejection of evictBlobs leaves the /kota evict-blobs handler
EvictionRejects_Uncaught(evictFails) == evictFails
EvictionRejects(evictFails) == FALSE

\* /kota evict-blobs with the blob cache enabled
LgEvictCmd(evictFails) ==
  /\ nOps < MaxSeqOps
  /\ nOps' = nOps + 1
  /\ lg' = [op |-> "evict-blobs",
            out |-> IF EvictionRejects(evictFails) THEN "evict" ELSE "ok",
            notify |-> IF ~evictFails THEN "info"
                       ELSE IF EvictionRejects(evictFails) THEN "none"
                       ELSE "warning",
            logFailed |-> FALSE, evictFailed |-> evictFails]
  /\ UNCHANGED <<sessVars, quietVars>>

NextLog ==
  \/ \E innerFails \in BOOLEAN : LgConnect(innerFails, innerFails)
  \/ \E innerFails \in BOOLEAN : LgToolCall(innerFails, innerFails)
  \/ \E innerFails \in BOOLEAN : LgShutdown(innerFails, innerFails)
  \/ \E evictFails \in BOOLEAN : LgEvictCmd(evictFails)

SpecLog == Init /\ [][NextLog]_vars

\* ------------------------------------------------------------------ claims
\* the caller is the starter of a run and has not left ensureIndexed yet
InEnsureIndexed(rec) == rec.role = "runner" /\ rec.eiOut = "none"

\* number of invocations of the indexing operation so far
IndexCalls == Cardinality({r \in Runs : runIdx[r] # "no"})

\* no run was started by a forced call and no invocation of the indexing
\* operation has failed
OnlyUnforcedSuccess == \A r \in Runs : ~runForced[r] /\ runIdx[r] # "fail"

\* C2: non-forced ensureIndexed calls on one state that starts not indexed,
\* sequential or concurrent, with an indexing operation that succeeds, invoke
\* the indexing operation at most once, and exactly once as soon as one of
\* them has returned normally.
C2_IndexInvokedExactlyOnce ==
  OnlyUnforcedSuccess =>
    /\ IndexCalls <= 1
    /\ \A t \in Tasks : tasks[t].eiOut = "ok" => IndexCalls = 1

\* two callers returned normally, one of them after waiting on the other's run
C2_Witness ==
  /\ OnlyUnforcedSuccess
  /\ IndexCalls = 1
  /\ \E s, w \in Tasks :
       /\ tasks[s].role = "runner" /\ tasks[s].eiOut = "ok"
       /\ tasks[w].role = "waiter" /\ tasks[w].eiOut = "ok"
       /\ tasks[w].run = tasks[s].run

\* C3: a caller that waited on an in-flight run leaves ensureIndexed with the
\* run's outcome, which is also the outcome of the caller that started the
\* run: normal return if the run succeeded, the run's error if it failed.
C3_WaitersShareOutcome ==
  \A w \in Tasks :
    (tasks[w].role = "waiter" /\ tasks[w].eiOut # "none") =>
      /\ runSt[tasks[w].run] \in {"fulfilled", "rejected"}
      /\ tasks[w].eiOut = RunOutcome(tasks[w].run)
      /\ \A s \in Tasks :
           (tasks[s].role = "runner" /\ tasks[s].run = tasks[w].run
              /\ tasks[s].eiOut # "none") => tasks[s].eiOut = tasks[w].eiOut

\* a waiter and the starter both failed with the error of the same run
C3_Witness ==
  \E s, w \in Tasks :
    /\ tasks[s].role = "runner" /\ tasks[w].role = "waiter"
    /\ tasks[w].run = tasks[s].run
    /\ tasks[s].eiOut = tasks[w].eiOut
    /\ tasks[w].eiOut \notin {"none", "ok"}

\* the slot only ever holds a run whose starter is still inside ensureIndexed
SlotHeldByLiveRun ==
  indexPromise # Null =>
    \E s \in Tasks : InEnsureIndexed(tasks[s]) /\ tasks[s].run = indexPromise

\* a caller only starts waiting on a run whose starter is still inside
\* ensureIndexed
WaitsOnLiveRunOnly ==
  \A t \in Tasks :
    (tasks[t].pc # "ei_wait" /\ tasks'[t].pc = "ei_wait") =>
      \E s \in Tasks :
        InEnsureIndexed(tasks[s]) /\ tasks[s].run = tasks'[t].run

C5_RefusalCancelsWithoutIndexing ==
  \A t \in Tasks :
    tasks[t].ans = "no" =>
      /\ runSt[tasks[t].run] = "rejected"
      /\ runErr[tasks[t].run] = "cancelled"
      /\ runIdx[tasks[t].run] = "no"
      /\ tasks[t].eiOut \in {"none", "cancelled"}
      /\ tasks[t].pc = "done" => tasks[t].out = "cancelled"
      /\ (InEnsureIndexed(tasks[t]) /\ ~tasks[t].wasIndexed) =>
           ~Indexed(tasks[t].target)

\* a caller whose confirmation was refused has failed with the cancel error
C5_Witness ==
  \E t \in Tasks :
    /\ tasks[t].ans = "no"
    /\ tasks[t].pc = "done"
    /\ tasks[t].out = "cancelled"
    /\ ~Indexed(tasks[t].target)

\* runs whose indexing operation (opts.index()) has been invoked and has not
\* ended
IndexingNow == {r \in Runs : runIdx[r] = "running"}

\* callers with an index RPC in flight
IndexRpcNow == {t \in Tasks : tasks[t].pc = "ct_rpc" /\ tasks[t].tool = "index"}

LiveConnections == {c \in Clients : conn[c] \in {"connecting", "connected"}}

\* C6: the session has at most one live connection (spawned subprocess with a
\* pending or completed handshake) in every reachable state.
C6_AtMostOneLiveConnection == Cardinality(LiveConnections) <= 1

\* no handler is in the middle of its steps
Quiescent == \A t \in Tasks : tasks[t].pc \in {"idle", "done"}

\* C7: whenever the connection status is Running the session holds a
\* non-null handle that reports itself connected (isConnected()); stated for
\* the states between operations (after a restart, after a shutdown, after a
\* failed call), which every reachable state includes.
C7_RunningImpliesConnectedHandle ==
  (Quiescent /\ kotaStatus = "running") => IsConnected

\* C8: a call that fails with a transport error invalidates the connection
\* as part of its failure handling, so that no client is left holding a handle
\* whose pipe has failed and the next call finds nothing connected and spawns
\* afresh.
C8_TransportErrorInvalidates ==
  /\ \A c \in Clients : conn[c] # "broken"
  /\ \A t \in Tasks : tasks[t].pc = "ct_rpc" => conn[tasks[t].h] # "broken"

\* C9: when callTool fails with a transport error, callBudgeted invokes the
\* transport-error callback once, does not call listTools, and returns
\* ok = false with a message that lists no tools.
C9_TransportErrorSkipsListing ==
  \A t \in Tasks :
    tasks[t].errClass = "transport" =>
      /\ tasks[t].cb = 1
      /\ tasks[t].lt = 0
      /\ tasks[t].res \in {"none", "fail"}
      /\ tasks[t].tools = "none"

\* C10: when callTool fails with an error that is not a transport error,
\* callBudgeted calls listTools, does not invoke the transport-error callback
\* and returns ok = false (it does not throw) with the tools listTools gave.
C10_LogicalErrorListsTools ==
  \A t \in Tasks :
    tasks[t].errClass = "logical" =>
      /\ tasks[t].lt = 1
      /\ tasks[t].cb = 0
      /\ tasks[t].res \in {"none", "fail"}

\* callers whose release function has not been invoked
Held == {h \in Handles : released[h] = "held"}

\* the count is the number of acquire() calls not yet released
CountIsHeld == inFlight.count = Cardinality(Held) /\ inFlight.count >= 0

\* a call of a release function that has run before changes nothing
RepeatedReleaseIsNoOp ==
  \A h \in Handles :
    (released[h] = "released" /\ relCalls'[h] # relCalls[h]) =>
      UNCHANGED <<inFlight, drainSt, drainBy, released>>

\* C13: the in-flight count equals the number of acquire() calls whose
\* release function has not been invoked yet, it is never negative, and a
\* second or later call of the same release function changes nothing.
C13_CountIsUnreleasedAcquires ==
  /\ []CountIsHeld
  /\ [][RepeatedReleaseIsNoOp]_vars

\* one release function was called twice while another acquire is held
C13_Witness ==
  \E h, g \in Handles :
    /\ relCalls[h] = 2 /\ released[h] = "released"
    /\ released[g] = "held"
    /\ inFlight.count = 1

\* a drain promise is pending only while calls are in flight
PendingOnlyWhileInFlight ==
  \A d \in Tasks : drainSt[d] = "pending" => inFlight.count > 0

\* drain() with a zero count returns a resolved promise; a pending promise
\* is resolved by the count reaching zero or by its timer, nothing else
DrainResolution ==
  \A d \in Tasks :
    /\ (drainSt[d] # "pending" /\ drainSt'[d] = "pending") =>
         inFlight.count > 0
    /\ (drainSt[d] = "pending" /\ drainSt'[d] = "resolved") =>
         \/ drainBy'[d] = "zero" /\ inFlight'.count = 0
         \/ drainBy'[d] = "timer"

\* C12: drain(timeoutMs) resolves at once when the count is zero; otherwise
\* it resolves as soon as the count reaches zero or the timeout has elapsed,
\* so every drain promise is resolved in the end, also when an acquired call
\* is never released.
C12_DrainAlwaysResolves ==
  /\ []PendingOnlyWhileInFlight
  /\ [][DrainResolution]_vars
  /\ \A d \in Tasks : (drainSt[d] = "pending") ~> (drainSt[d] = "resolved")

\* one drain was resolved by its timer with a call still in flight, another
\* one by the count reaching zero
C12_Witness ==
  \E d, e \in Tasks :
    /\ drainBy[d] = "timer" /\ drainSt[d] = "resolved"
    /\ drainBy[e] = "zero" /\ drainSt[e] = "resolved"
    /\ \E h \in Handles : released[h] = "held"

\* the order of the steps of session_shutdown: the handler leaves its drain
\* only with the drain promise resolved, starts closing the connection only
\* from there, and ends by setting the handle to null
ShutdownOrder ==
  \A t \in Tasks :
    /\ (tasks[t].pc = "sd_drain" /\ tasks'[t].pc # "sd_drain") =>
         /\ drainSt[t] = "resolved"
         /\ tasks'[t].pc \in {"sd_close", "sd_fin"}
    /\ (tasks[t].pc # "sd_close" /\ tasks'[t].pc = "sd_close") =>
         tasks[t].pc = "sd_drain"
    /\ (tasks[t].pc = "sd_close" /\ tasks'[t].pc # "sd_close") =>
         tasks'[t].pc = "sd_fin"
    /\ (tasks[t].pc = "sd_fin" /\ tasks'[t].pc # "sd_fin") =>
         /\ tasks'[t].pc = "done"
         /\ mcp' = Null
    /\ (tasks'[t].op = "shutdown" /\ tasks'[t].pc = "done") =>
         tasks[t].pc \in {"sd_fin", "done"}

\* C11: session_shutdown waits for the in-flight calls to drain, then closes
\* the connection, then sets the handle to null; the close starts only after
\* the in-flight count has reached zero or the 3000 ms have elapsed, and the
\* handle is null when the handler ends whether or not the close succeeded.
C11_ShutdownDrainsThenCloses ==
  /\ [][ShutdownOrder]_vars
  /\ [][DrainResolution]_vars

\* a shutdown that waited for a call in flight, was let go by the count
\* reaching zero, closed the connection and ended with a null handle
C11_Witness ==
  \E t \in Tasks :
    /\ tasks[t].op = "shutdown" /\ tasks[t].pc = "done"
    /\ drainBy[t] = "zero"
    /\ mcp = Null
    /\ \E c \in Clients : conn[c] = "closed"

\* C14: with no restart in between, each distinct HEAD value gets at most
\* one staleness warning over any sequence of non-overlapping tool calls,
\* also when HEAD moves to other values and comes back to one already
\* warned about.
C14_OneWarningPerHead == \A c \in Heads : warnings[c] <= 1

\* an operation of the one-by-one session has just started and ended
SeqOpRan == nOps' = nOps + 1

\* the fields /kota restart resets
RestartCleared ==
  /\ mcp = Null
  /\ kotaStatus = "stopped"
  /\ indexedRepoRoot = NoPath
  /\ indexedAtCommit = Null
  /\ stalenessWarnedForHead = Null

\* the tool call that follows a restart and succeeds has spawned a new
\* connection and issued an index RPC
ReconnectsAndReindexes ==
  (lastOp = "restart" /\ SeqOpRan /\ lastOp' # "restart" /\ lastOut' = "ok") =>
    /\ nClients' = nClients + 1
    /\ mcp' = nClients' /\ conn'[mcp'] = "connected"
    /\ nIndexRpc' = nIndexRpc + 1

C16_CmdIndexReindexes ==
  [][(/\ SeqOpRan /\ lastOp' = "cmd_index" /\ lastOut' = "ok"
      /\ Indexed(RepoRoot)
      /\ isIndexStale(indexedAtCommit, head)) =>
       (/\ nIndexRpc' = nIndexRpc + 1
        /\ indexedAtCommit' \in HeadCommits)]_vars

\* no close() call is awaiting the handle
NoCloseRunning == \A t \in Tasks : tasks[t].pc # "cl_close"

\* C17: close() does nothing on a disconnected client, closes and clears the
\* handle of a connected one, and after any sequence of close() calls the
\* client is disconnected and its handle has been closed at most once.
C17_CloseIdempotent ==
  /\ \A c \in Clients : handleCloses[c] <= 1
  /\ (nOps >= 1 /\ NoCloseRunning) => ~IsConnected

\* C18: when evictBlobs has returned and no stat or unlink call failed, no
\* regular file older than maxAgeDays is left in the directory and the
\* regular files left take at most maxSizeBytes together.
C18_EvictLeavesYoungWithinBudget ==
  (ev.done /\ ~ev.failed) =>
    /\ \A n \in Remaining(ev) : ~IsOld(ev, ev.dir[n])
    /\ SumSizes(ev.dir, Asc(Remaining(ev))) <= ev.maxSizeBytes

\* a call that removed one file for its age and the oldest of the others for
\* the budget, and left a file
C18_Witness ==
  /\ ev.done /\ ~ev.failed
  /\ \E a, b, c \in Names :
       /\ ev.removed = {a, b} /\ Remaining(ev) = {c}
       /\ IsOld(ev, ev.dir[a]) /\ ~IsOld(ev, ev.dir[b])
       /\ ev.dir[b].mtimeMs < ev.dir[c].mtimeMs

\* what the writeBlob calls that have ended returned
BlobResults ==
  bl.returned \cup
    {[content |-> bl.w[t].content, ext |-> bl.w[t].ext,
      blobId |-> bl.w[t].blobId, blobPath |-> bl.w[t].blobPath] :
       t \in {u \in Tasks : bl.w[u].pc = "done"}}

\* the paths some call is writing at the moment
BeingWritten == {bl.w[t].blobPath : t \in {u \in Tasks : bl.w[u].pc = "write"}}

\* C19: writes of identical content (and extension) return the same id and
\* path, writes of distinct content go to distinct paths, and once the
\* writes of a content have ended one file holds that content: the directory
\* has exactly one file per content and extension written.
C19_BlobsContentAddressed ==
  /\ \A r, q \in BlobResults :
       /\ (r.content = q.content /\ r.ext = q.ext) =>
            (r.blobId = q.blobId /\ r.blobPath = q.blobPath)
       /\ r.content # q.content => r.blobPath # q.blobPath
  /\ \A r \in BlobResults :
       r.blobPath \notin BeingWritten =>
         /\ r.blobPath \in DOMAIN bl.files
         /\ bl.files[r.blobPath] = r.content
  /\ Cardinality(DOMAIN bl.files) = Cardinality(bl.opened)

\* two writes of one content overlapped and both ended, next to a write of
\* another content: two files
C19_Witness ==
  /\ \A t \in Tasks : bl.w[t].pc = "done"
  /\ \A t, u \in Tasks : bl.w[t].blobPath = bl.w[u].blobPath
  /\ \E t \in Tasks : Len(bl.w[t].content) = 2
  /\ \E r \in bl.returned : \A t \in Tasks : r.content # bl.w[t].content
  /\ Cardinality(DOMAIN bl.files) = 2

\* the user messages behind position idx
UsersAfter(idx) ==
  Cardinality({j \in DOMAIN pr.messages :
                 j > idx /\ pr.messages[j].role = "user"})

\* position idx lies in the last keepRecentTurns user turns, or there are no
\* more than keepRecentTurns user messages
AtOrAfterCutoff(idx) ==
  \/ UsersAfter(idx) < pr.keepRecentTurns
  \/ UsersAfter(0) <= pr.keepRecentTurns

\* C20: the result has the length and the order of the input, and a message
\* is returned unchanged when it is at or after the cutoff, is not a tool
\* result, names a tool outside the prune set, or has a text of at most
\* maxToolChars.
C20_PruneFrame ==
  pr.done =>
    /\ Len(pr.out) = Len(pr.messages)
    /\ \A idx \in DOMAIN pr.messages :
         /\ pr.out[idx].timestamp = pr.messages[idx].timestamp
         /\ pr.out[idx].role = pr.messages[idx].role
         /\ ( \/ AtOrAfterCutoff(idx)
              \/ pr.messages[idx].role # "toolResult"
              \/ pr.messages[idx].toolName \notin pr.pruneToolNames
              \/ toolText(pr.messages[idx]) <= pr.maxToolChars )
              => pr.out[idx] = pr.messages[idx]

\* a call that replaced an old tool result and kept a long one of the last
\* turn, one of another tool and a short one
C20_Witness ==
  /\ pr.done
  /\ \E idx \in DOMAIN pr.messages : pr.out[idx] # pr.messages[idx]
  /\ \E idx \in DOMAIN pr.messages :
       /\ AtOrAfterCutoff(idx)
       /\ isToolResult(pr.messages[idx])
       /\ pr.messages[idx].toolName \in pr.pruneToolNames
       /\ toolText(pr.messages[idx]) > pr.maxToolChars
  /\ \E idx \in DOMAIN pr.messages :
       /\ ~AtOrAfterCutoff(idx)
       /\ isToolResult(pr.messages[idx])
  /\ Len(pr.messages) = MaxMsgs

\* position idx holds a tool result of a pruned tool with a text over the
\* budget, before the cutoff
Prunable(idx) ==
  /\ ~AtOrAfterCutoff(idx)
  /\ pr.messages[idx].role = "toolResult"
  /\ pr.messages[idx].toolName \in pr.pruneToolNames
  /\ toolText(pr.messages[idx]) > pr.maxToolChars

\* C21: for keepRecentTurns >= 1, every tool result before the cutoff whose
\* tool is in the prune set and whose text is longer than maxToolChars is
\* replaced by one text placeholder naming the tool and the original
\* character count, with details pruned = true and originalChars = that count.
C21_OldLargeResultsReplaced ==
  (pr.done /\ pr.keepRecentTurns >= 1) =>
    \A idx \in DOMAIN pr.messages :
      Prunable(idx) =>
        /\ Len(pr.out[idx].content) = 1
        /\ pr.out[idx].content[1].type = "text"
        /\ pr.out[idx].content[1].placeholderOf =
             <<pr.messages[idx].toolName, toolText(pr.messages[idx])>>
        /\ pr.out[idx].details.pruned
        /\ pr.out[idx].details.originalChars = toolText(pr.messages[idx])
        /\ pr.out[idx].role = "toolResult"
        /\ pr.out[idx].toolName = pr.messages[idx].toolName

\* a call with keepRecentTurns = 1 that had two tool results to replace
C21_Witness ==
  /\ pr.done
  /\ pr.keepRecentTurns = 1
  /\ Cardinality({idx \in DOMAIN pr.messages : Prunable(idx)}) = 2
  /\ \A idx \in DOMAIN pr.messages :
       Prunable(idx) => pr.out[idx].details.pruned

C23_AdaptiveSettings ==
  ps.done =>
    /\ (~ps.tokensDefined \/ ps.tokens < 120000) => ps.out = ps.base
    /\ (ps.tokensDefined /\ ps.tokens >= 120000) =>
         /\ ps.out.keepRecentTurns =
              (IF ps.base.keepRecentTurns - 1 > 1
                 THEN ps.base.keepRecentTurns - 1 ELSE 1)
         /\ \E f \in 0..ps.base.maxToolChars :
              /\ 100 * f <= 66 * ps.base.maxToolChars
              /\ 66 * ps.base.maxToolChars < 100 * (f + 1)
              /\ ps.out.maxToolChars = (IF f > 400 THEN f ELSE 400)

\* a call at exactly 120000 tokens that tightened both settings
C23_Witness ==
  /\ ps.done
  /\ ps.tokensDefined
  /\ ps.tokens = 120000
  /\ ps.base = [keepRecentTurns |-> 2, maxToolChars |-> 1200]
  /\ ps.out = [keepRecentTurns |-> 1, maxToolChars |-> 792]

\* the text is longer than the budget, and the budget is positive
Truncates == tc.maxChars > 0 /\ Len(tc.input) * Halves > tc.maxChars

ShutdownBegun == \E t \in Tasks : tasks[t].op = "shutdown"

\* C26: once session shutdown has begun no new connection attempt is made:
\* no KotaMcpClient is created and no subprocess is spawned, whatever tool
\* calls run next to the shutdown sequence or after it.
C26_NoConnectAfterShutdown ==
  [][ShutdownBegun => nClients' = nClients]_vars

\* C27: indexedRepoRoot changes to a path P only in the last step of an
\* indexing run for P whose index RPC succeeded, and a run that fails or is
\* cancelled leaves indexedRepoRoot as it was.
C27_IndexedRootOnlyAfterIndexing ==
  [][ /\ (indexedRepoRoot' # indexedRepoRoot /\ indexedRepoRoot' # NoPath) =>
           \E t \in Tasks :
             /\ tasks[t].run # Null
             /\ tasks[t].target = indexedRepoRoot'
             /\ runIdx[tasks[t].run] = "ok"
             /\ runSt[tasks[t].run] = "pending"
             /\ runSt'[tasks[t].run] = "fulfilled"
      /\ \A r \in Runs :
           (runSt[r] # "rejected" /\ runSt'[r] = "rejected") =>
             indexedRepoRoot' = indexedRepoRoot ]_vars

\* kota_index has indexed another path than the repository root, after a run
\* that failed
C27_Witness ==
  /\ indexedRepoRoot = "P2"
  /\ \E r \in Runs : runSt[r] = "rejected"
  /\ \E r \in Runs : runSt[r] = "fulfilled"

\* C28: a connect attempt that fails rethrows the error and ends with status
\* error, lastError the error message and a null handle; a connect attempt
\* that succeeds ends with status running, lastError null and the new handle
\* stored.
C28_ConnectOutcomeRecorded ==
  [][ \A t \in Tasks :
        (tasks[t].pc = "ec_log" /\ tasks'[t].pc = "done") =>
          IF tasks[t].res = "connect"
          THEN /\ tasks'[t].out = "connect"
               /\ kotaStatus' = "error"
               /\ lastError' = "connect"
               /\ mcp' = Null
          ELSE /\ tasks'[t].out = "ok"
               /\ kotaStatus' = "running"
               /\ lastError' = "none"
               /\ mcp' = tasks[t].client ]_vars

\* connect() has failed
ConnectFailed == ce.done /\ ~ce.handshakeOk

\* the spawn did not find the runtime, or stderr says the interpreter is
\* missing
RuntimeMissing ==
  \/ ce.commandIsBun /\ ce.error = "enoent"
  \/ \E i \in DOMAIN ce.stderrText : ce.stderrText[i] = "bunMissing"

\* C29: a failed connect() throws the timeout error if the timer fired,
\* otherwise the bun-not-found error if the runtime was not found at spawn or
\* stderr says so, otherwise the subprocess-failed error with the stderr text
\* if stderr is non-empty, otherwise the raw failure; the client stays
\* disconnected.
C29_ConnectErrorPrecedence ==
  ConnectFailed =>
    /\ ~ce.client
    /\ ce.thrown.kind =
         (IF ce.didTimeout THEN "timeout"
          ELSE IF RuntimeMissing THEN "bunNotFound"
          ELSE IF ce.stderrText # <<>> THEN "subprocessFailed"
          ELSE "raw")

\* what is left of stderr without its blank lines
NonBlank == SelectSeq(ce.stderrText, LAMBDA l : l # "blank")

\* C29, amended: as above, with the subprocess-failed error thrown only if
\* stderr holds something else than whitespace, carrying that text with its
\* whitespace collapsed; a stderr of whitespace alone gives the raw failure.
C29_ConnectErrorPrecedenceTrimmed ==
  ConnectFailed =>
    /\ ~ce.client
    /\ ce.thrown.kind =
         (IF ce.didTimeout THEN "timeout"
          ELSE IF RuntimeMissing THEN "bunNotFound"
          ELSE IF NonBlank # <<>> THEN "subprocessFailed"
          ELSE "raw")
    /\ ce.thrown.kind = "subprocessFailed" => ce.thrown.text = NonBlank
    /\ ce.thrown.kind = "raw" => ce.thrown.text = <<ce.error>>

\* the timer fired on a spawn that found no bun and whose stderr says so
C29_Witness ==
  /\ ConnectFailed
  /\ ce.didTimeout
  /\ RuntimeMissing
  /\ ce.error = "enoent"
  /\ Len(ce.stderrText) = 2
  /\ ce.thrown.kind = "timeout"

\* the files the size pass removed: the removed files that were not old
SizeRemoved == {n \in ev.removed : ~IsOld(ev, ev.dir[n])}

C31_EvictTotalsAreUnlinked ==
  ev.done =>
    /\ ev.removedCount = Cardinality(ev.removed)
    /\ ev.removedBytes = SumSizes(ev.dir, Asc(ev.removed))
    /\ ev.aged \subseteq ev.removed
    /\ ev.ageFailed \cap ev.aged = {}
    /\ ev.totalSize = SumSizes(ev.dir, Asc(ev.statted \ ev.aged))
    /\ ev.sizeFailed \subseteq Remaining(ev)
    /\ ev.ageFailed \subseteq Remaining(ev) \cup (ev.removed \ ev.aged)

\* a call that returned after the unlink of an old file failed in both
\* passes: the file is left, and a younger file went for the budget that the
\* old file's size kept exceeded
C31_Witness ==
  /\ ev.done
  /\ \E a, b \in Names :
       /\ a \in ev.ageFailed /\ a \in ev.sizeFailed
       /\ a \in Remaining(ev)
       /\ ev.removed = {b} /\ ~IsOld(ev, ev.dir[b])
       /\ ev.totalSize - ev.dir[a].size <= ev.maxSizeBytes
       /\ ev.removedCount = 1 /\ ev.removedBytes = ev.dir[b].size

\* position idx holds a tool result of a pruned tool with a text over the
\* budget, wherever it stands
Eligible(idx) ==
  /\ isToolResult(pr.messages[idx])
  /\ pr.messages[idx].toolName \in pr.pruneToolNames
  /\ toolText(pr.messages[idx]) > pr.maxToolChars

\* C32: with keepRecentTurns = 0 every tool result whose tool is in the prune
\* set and whose text is longer than maxToolChars is replaced by the
\* placeholder, wherever it stands in the list.
C32_ZeroTurnsPrunesAllEligible ==
  (pr.done /\ pr.keepRecentTurns = 0) =>
    \A idx \in DOMAIN pr.messages :
      Eligible(idx) =>
        /\ pr.out[idx].details.pruned
        /\ Len(pr.out[idx].content) = 1
        /\ pr.out[idx].content[1].placeholderOf =
             <<pr.messages[idx].toolName, toolText(pr.messages[idx])>>

\* the commits a field or an answer of getHeadCommit may hold
KnownOrNot == Heads \cup {Null}

\* a warning issued by the step is one for the HEAD that was read, which
\* differs from the commit recorded as indexed
WarnsOnlyWhenStale ==
  \A c \in Heads :
    warnings'[c] > warnings[c] =>
      /\ indexedAtCommit # Null
      /\ c = head
      /\ indexedAtCommit # c

\* C33: isIndexStale is true exactly when both commits are known and they
\* differ, and no staleness warning is issued when no indexed commit is
\* recorded, when HEAD cannot be read, or when HEAD equals the indexed commit.
C33_StaleIffKnownAndDifferent ==
  /\ [](\A cur \in KnownOrNot :
          isIndexStale(indexedAtCommit, cur) <=>
            (indexedAtCommit \in Heads /\ cur \in Heads
               /\ indexedAtCommit # cur))
  /\ [][WarnsOnlyWhenStale]_vars

\* a search has just warned about the HEAD it read, which is not the commit
\* recorded as indexed
C33_Witness ==
  /\ lastOp = "search" /\ lastOut = "ok"
  /\ indexedAtCommit \in Heads
  /\ head # indexedAtCommit
  /\ stalenessWarnedForHead = head
  /\ warnings[head] = 1

\* the step in which caller t's ensureIndexed call returns normally
EnsureIndexedReturns(t) ==
  tasks[t].eiOut = "none" /\ tasks'[t].eiOut = "ok"

\* C34: whenever a non-forced ensureIndexed call returns normally, the
\* caller's own target path is the one recorded as indexed at that moment,
\* also when the caller waited on a run started for a different target path.
C34_ReturnMeansOwnTargetIndexed ==
  [][\A t \in Tasks :
       (EnsureIndexedReturns(t) /\ ~tasks'[t].force) =>
         indexedRepoRoot' = tasks'[t].target]_vars

\* C35: of the staleness checks that overlap, no two are at the same time
\* between the test of the HEAD warned for and the recording of
\* stalenessWarnedForHead for one and the same HEAD, so that one HEAD read by
\* several checks gets one warning.
C35_OneCheckPastWarnedTest ==
  \A t, u \in Tasks :
    (t # u /\ sc.pc[t] = "log" /\ sc.pc[u] = "log") => sc.got[t] # sc.got[u]

\* the step in which check t has read HEAD and made its tests
ChecksHead(t) == sc.pc[t] = "head" /\ sc'.pc[t] # "head"

\* C38: a staleness check that runs with a UI, reads a HEAD and finds a
\* recorded indexedAtCommit different from it goes on to its warning when no
\* warning has been issued since the last index run that succeeded.
C38_ReindexMakesHeadsEligible ==
  [][\A t \in Tasks :
       (/\ ChecksHead(t)
        /\ sc.hasUI[t]
        /\ sc'.got[t] # Null
        /\ isIndexStale(indexedAtCommit, sc'.got[t])
        /\ sc.sinceIndex = 0) => sc'.pc[t] = "log"]_vars

\* the step in which the call of t, issued on connection tasks[t].h, is
\* reported as failed by a transport error
TransportErrorReported(t) ==
  /\ tasks[t].pc = "ct_rpc"
  /\ tasks'[t].errClass = "transport"

\* C36: a transport error of a tool call disconnects the connection on which
\* the call ran and no other: a connection established after the call
\* started is still the session's connected client afterwards.
C36_TransportErrorHitsOwnConnection ==
  [][\A t \in Tasks :
       TransportErrorReported(t) =>
         /\ \A c \in Clients \ {tasks[t].h} : conn'[c] = conn[c]
         /\ mcp # tasks[t].h => mcp' = mcp
         /\ ~HasHandle(tasks[t].h)']_vars

\* C37: once the connect timeout has fired, connect() stores no handle and
\* fails with the timeout error, also when the handshake completes while the
\* termination of the subprocess is awaited; a connection connect() reports
\* as established is one whose transport the timeout did not close.
C37_NoSuccessAfterTimeout ==
  (ce.done /\ ce.didTimeout) =>
    /\ ~ce.client
    /\ ce.thrown.kind = "timeout"

\* pruneContextMessages applied, with the options of the call, to what the
\* call returned
PrunedAgain == pruneContextMessages([pr EXCEPT !.messages = pr.out])

\* C39: for maxToolChars >= 1 pruneContextMessages applied to its own output
\* returns that output unchanged: a pruned message keeps its placeholder and
\* its originalChars.
C39_PruneIdempotent ==
  (pr.done /\ pr.maxToolChars >= 1) => PrunedAgain = pr.out

\* C40: computePruneSettings never loosens the settings: the maxToolChars
\* and the keepRecentTurns it returns are at most those of base, for every
\* base and every token usage.
C40_SettingsNeverLoosened ==
  ps.done =>
    /\ ps.out.maxToolChars <= ps.base.maxToolChars
    /\ ps.out.keepRecentTurns <= ps.base.keepRecentTurns

====
